SPECIFICATION FairSpec
CONSTANTS
  Txns = {t1, t2}
  MinSubmit = 2
  Sharders = {s1, s2}
  MinVerify = 2
  ChainLength = 2
  TTL = 2
  MaxRound = 3
  Faults = {"explicit", "nonce", "sign", "post", "answer", "refuse", "offline", "blank", "parse"}
  MaxFaults = 2
INVARIANTS Consecutive VerifyOutcome
PROPERTY Reported
