SPECIFICATION Spec
CONSTANTS
    Nil = Nil
    Payloads <- MCPayloads
    Alterations <- MCAlterations
INVARIANTS
    ValidatorsAgree
    ReportedIsEffective
    LockKeepsContention
