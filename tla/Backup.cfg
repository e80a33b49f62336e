CONSTANTS
    SettingKeys = {"auth_username", "auth_password_hash"}
    Ids = {"s1"}
    Tokens = {"t1"}
    Names = {"n1", "n2"}
    Values = {v1, v2}
    FirstConfigs <- SomeConfigs
    MaxWrites = 1
    MaxKeys = 2
    None = None
SPECIFICATION Spec
INVARIANTS
    TypeOK
    RestoredAsExported
    NeverRefused
    SecretsStayReadable
