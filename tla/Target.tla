-------------------------------- MODULE Target --------------------------------
(***************************************************************************)
(* What convergence promises about one account of a directory, seen        *)
(* through the attributes it manages and without locks, lookups, requests  *)
(* or answers. The account moves, in one step, to a projection that was    *)
(* persisted; and it moves forward, to no older projection than the one it *)
(* shows. There are two exceptions: where there is no account, any         *)
(* persisted projection may create it, and a projection that went astray,  *)
(* because its command lost the row lock, may come back at any time.       *)
(***************************************************************************)
EXTENDS Naturals

VARIABLES
    rows,      \* the projections persisted, by number [exists, enabled, attributes]
    accounts,  \* the account [enabled, attributes], as a set
    shown,     \* the projection written last, 0 when another client changed it
    astray     \* projections whose command lost its lock

vars == <<rows, accounts, shown, astray>>

\* An account set that a write of p leaves behind. Attributes that p does not
\* mention are kept, and what p's absence means is the target's policy.
Shows(p, accs) ==
    IF p.exists
    THEN \E a \in accs :
            /\ accs = {a}
            /\ a.enabled = p.enabled
            /\ \A k \in DOMAIN p.attributes :
                  k \in DOMAIN a.attributes /\ a.attributes[k] = p.attributes[k]
    ELSE \A a \in accs : ~a.enabled

\* Whatever account there is, nothing has been written to it.
Init ==
    /\ DOMAIN rows = {}
    /\ shown = 0
    /\ astray = {}

\* More projections are persisted; the earlier ones stay what they were.
Persist ==
    /\ DOMAIN rows \subseteq DOMAIN rows'
    /\ \A n \in DOMAIN rows : rows'[n] = rows[n]
    /\ UNCHANGED <<accounts, shown, astray>>

Write(n) ==
    /\ n >= shown \/ accounts = {} \/ n \in astray
    /\ Shows(rows[n], accounts')
    /\ shown' = n
    /\ UNCHANGED <<rows, astray>>

LoseLock(n) ==
    /\ astray' = astray \cup {n}
    /\ UNCHANGED <<rows, accounts, shown>>

\* The account becomes anything.
OtherClient ==
    /\ shown' = 0
    /\ UNCHANGED <<rows, astray>>

Next ==
    \/ Persist
    \/ \E n \in DOMAIN rows : Write(n) \/ LoseLock(n)
    \/ OtherClient

Spec == Init /\ [][Next]_vars
=============================================================================
