--------------------------- MODULE MCPortalSession ---------------------------
(* Instances of PortalSession for TLC. *)
EXTENDS PortalSession

CONSTANTS a, b

\* A group of two entities; one is nested in another, one is overridden.
MCIdentities == {a, b}
MCItems == {"Group", "Fax", "FaxesOut", "Voicemail"}
MCAbove ==
    [x \in MCItems |-> CASE x = "Group" -> {}
                         [] x = "FaxesOut" -> {"Group", "Fax"}
                         [] OTHER -> {"Group"}]
MCBlocks == {"Group"}
MCRights == {"read", "update"}
MCBase == [x \in MCItems |-> IF x = "Group" THEN {} ELSE MCRights]
MCOverridden == {"Voicemail"}
MCOverride ==
    [i \in MCIdentities |-> [x \in MCItems |-> IF i = a THEN {"read"} ELSE MCRights]]
MCAccessible == [i \in MCIdentities |-> IF i = a THEN {"Group", "FaxesOut", "Voicemail"} ELSE MCItems]
MCRestricted == {b}
MCGranted ==
    [i \in MCIdentities |->
        [x \in MCItems |-> CASE x = "Voicemail" -> {"update"}
                             [] x = "Fax" -> {"read"}
                             [] OTHER -> {}]]

=============================================================================
