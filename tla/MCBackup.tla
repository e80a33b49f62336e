------------------------------ MODULE MCBackup ------------------------------
(* Backup for TLC: an empty database or file, and one with a row in each   *)
(* table.                                                                  *)
EXTENDS Backup

OneOfEach == {<<"settings", "auth_username">>, <<"switches", "s1">>,
              <<"api_tokens", "t1">>, <<"port_names", "s1">>,
              <<"notification_channels", "n1">>}
SomeValue == CHOOSE v \in Values : TRUE
SomeConfigs == {NoConfig, [i \in Items |-> IF i \in OneOfEach THEN SomeValue ELSE None]}
=============================================================================
