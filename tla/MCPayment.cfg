SPECIFICATION FairSpec
CONSTANTS
  o1 = o1
  o2 = o2
  n1 = n1
  n2 = n2
  n3 = n3
  h1 = h1
  h2 = h2
  Orders = {o1}
  Notices = {n1, n2}
  OrderOf <- MCOrderOf
  Handlers = {h1, h2}
  Providers = {"alipay", "easypay", "wechat", "other"}
  MaxFaults = 1
  MaxRetries = 1
  Nobody = Nobody
INVARIANTS
  FulfilledOnce
  SuccessIsTrue
PROPERTIES
  ImplementsOrderLedger
  PaymentArrives
  ProviderStops
