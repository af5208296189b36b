---------------------------- MODULE MCConvergence ----------------------------
(***************************************************************************)
(* One subject, two runs. Configurations: both deprovision modes, one of   *)
(* them with a custom binding, and one New has to refuse.                  *)
(***************************************************************************)
EXTENDS Convergence, TLC

MCNames ==
    {"externalId", "externalid", "userName", "username", "badge", "title", "Title"}
MCFold ==
    [n \in MCNames |-> CASE n = "externalId" -> "externalid"
                         [] n = "userName" -> "username"
                         [] n = "Title" -> "title"
                         [] OTHER -> n]
MCTexts == {"s1", "eng", "ops"}
MCValues == MCTexts \cup {"complex"}
MCScalarString == [v \in MCValues |-> IF v = "complex" THEN {} ELSE {v}]

Flags(subject, managed, mode) ==
    [subject_attribute |-> subject, managed_attributes |-> managed,
     deprovision_mode |-> mode]
Disable == Flags("", <<"Title">>, "")
Delete == Flags("badge", <<"Title">>, "delete")
ManagedBinding == Flags("badge", <<"Title", "badge">>, "disable")
MCConfigs == {Disable, Delete, ManagedBinding}
ValidConfigs == {Disable, Delete}

Proj(exists, enabled, attributes) ==
    [exists |-> exists, enabled |-> enabled, attributes |-> attributes]
Hired == Proj(TRUE, TRUE, "Title" :> "eng")
Left == Proj(TRUE, FALSE, "Title" :> "eng")
Untitled == Proj(TRUE, TRUE, NoAttributes)
Unknown == Proj(FALSE, FALSE, NoAttributes)
\* Refused unless the binding is managed
Rebadged == Proj(TRUE, TRUE, "badge" :> "ops")
MCProjections == {Hired, Left, Untitled, Unknown, Rebadged}
TitledOnly == {Hired, Unknown, Rebadged}

Binding == [k \in {"username", "externalid", "badge"} |-> "s1"]
Held(active, title) ==
    [active |-> active, attributes |-> ("title" :> title) @@ Binding]
MCOtherWrites == {Held({}, "ops"), Held({FALSE}, "complex")}
OneOtherWrite == {Held({TRUE}, "ops")}

MCTokens == 1 .. 9
RunSymmetry == Permutations(Runs)
=============================================================================
