----------------------------- MODULE Reporting -----------------------------
(***************************************************************************)
(* What the ValidationResult controller promises the sink: it sends what   *)
(* was stored, complete and in the order in which it was stored.  Versions *)
(* may be skipped and sent again, but the sink never receives a version    *)
(* after a later one was sent, nor one that was never stored.              *)
(***************************************************************************)
EXTENDS Naturals, Sequences

CONSTANTS
    Content,        \* what a ValidationResult may say
    NoContent,      \* there is no ValidationResult, or nothing was sent
    Complete(_)     \* the contents that are worth reporting

VARIABLES
    stored,         \* what is stored
    ahead,          \* the versions from the one to be looked at to the last
    taken,          \* what is being reported
    delivered       \* what the sink received last

Init ==
    /\ stored = NoContent
    /\ ahead = <<NoContent>>
    /\ taken = NoContent
    /\ delivered = NoContent

\* Somebody writes.  What is already taken does not change.
Store ==
    /\ stored' \in Content \cup {NoContent}
    /\ ahead' = Append(ahead, stored')
    /\ UNCHANGED <<taken, delivered>>

\* The next version is to be looked at, and the one before never again.
Proceed ==
    /\ Len(ahead) > 1
    /\ ahead' = Tail(ahead)
    /\ UNCHANGED <<stored, taken, delivered>>

\* Only a complete result is reported.
Take ==
    /\ taken = NoContent
    /\ Head(ahead) # NoContent /\ Complete(Head(ahead))
    /\ taken' = Head(ahead)
    /\ UNCHANGED <<stored, ahead, delivered>>

\* The report ends; the sink has received it, or (after an error) not.
Report ==
    /\ taken # NoContent
    /\ taken' = NoContent
    /\ delivered' \in {delivered, taken}
    /\ UNCHANGED <<stored, ahead>>

\* A restart gives up the report and looks at what is stored.
Restart ==
    /\ taken' = NoContent
    /\ ahead' = <<stored>>
    /\ UNCHANGED <<stored, delivered>>

Next == Store \/ Proceed \/ Take \/ Report \/ Restart

Spec == Init /\ [][Next]_<<stored, ahead, taken, delivered>>
=============================================================================
