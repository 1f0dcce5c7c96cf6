------------------------------ MODULE MCReloads ------------------------------
(* Instances of Reloads for TLC. *)
EXTENDS Reloads, TLC

CONSTANTS p1, p2, l1

MCProcesses == {p1, p2}
MCTables == {"rulesUsers", "rulesTrunks", "registrations", "dialplan"}
MCLocks == {l1}
MCSent == [rule |-> <<"rulesUsers", "rulesTrunks">>, registration |-> <<"registrations">>]
MCChanges == DOMAIN MCSent
MCAsterisks == {"as1", "as2"}
MCHolders ==
    l1 :> MCAsterisks
    @@ [rulesUsers |-> {"users"}, rulesTrunks |-> {"trunks"},
        registrations |-> {"trunks"}, dialplan |-> MCAsterisks]
MCChannels == {"RpcCall", "RpcCallRetryOnError", "DialplanReload", "HintUpdate"}
MCChannelOf ==
    l1 :> "HintUpdate"
    @@ [rulesUsers |-> "RpcCall", rulesTrunks |-> "RpcCall",
        registrations |-> "RpcCallRetryOnError", dialplan |-> "DialplanReload"]
MCSwallowing == {"HintUpdate"}

=============================================================================
