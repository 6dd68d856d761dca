SPECIFICATION FairSpec
CONSTANTS
    phone = phone  gate = gate  video = video
    u1 = u1  u2 = u2  p1 = p1  p2 = p2  c1 = c1  h1 = h1  h2 = h2
    Steps <- MCSteps
    Sections <- MCSections
    StepType <- MCStepType
    StepSection <- MCStepSection
    StepOrder <- MCStepOrder
    NoStep = NoStep
    NoCoupon = NoCoupon
    Discount <- MCDiscount
    UsageLimit <- MCUsageLimit
    Unlimited = Unlimited
    Users = {u1}
    Payments = {p1, p2}
    Coupons = {c1}
    Handlers = {h1, h2}
    Prices = {2}
    MockWebhook = FALSE
    MaxCrashes = 0
PROPERTIES
    CouponCaptureHonoured
CHECK_DEADLOCK FALSE
