----------------------------- MODULE MCSession -----------------------------
(* Model checking of Session: two tabs, two accounts, one address typed in   *)
(* two ways, a text that is no address, and drafts with empty, equal and    *)
(* overlong options.                                                        *)
EXTENDS Session, TLC

T(word, upper, padded) == [word |-> word, upper |-> upper, padded |-> padded]

Long == "an option of 101 bytes"
MCWords == {"", "ann", "bob", Long}
MCLength == [w \in MCWords |-> IF w = Long THEN 101 ELSE 3]
MCAddresses == {"ann", "bob"}
MCTyped == {T("ann", FALSE, FALSE), T("ann", TRUE, TRUE), T("bob", FALSE, FALSE),
            T(Long, FALSE, FALSE)}
MCQuestion == T("bob", TRUE, TRUE)
MCOptions == {<<T("ann", FALSE, TRUE), T("bob", TRUE, FALSE)>>,
              <<T("ann", FALSE, FALSE), T("ann", TRUE, TRUE)>>,
              <<T("ann", FALSE, FALSE), T("", FALSE, TRUE)>>,
              <<T("ann", FALSE, FALSE), T("", FALSE, FALSE), T(Long, FALSE, FALSE)>>}
MCDrafts == {[question |-> MCQuestion, options |-> o] : o \in MCOptions}

Symmetry == Permutations(Tabs) \union Permutations(Slots)
            \union Permutations(Tokens)

=============================================================================
