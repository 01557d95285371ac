---------------------------- MODULE FunctionCall ----------------------------
(***************************************************************************)
(* What a call of a function promises its caller, whatever processes and   *)
(* pipes it is made of: the function runs at most once, in a root          *)
(* filesystem that is there; the caller is answered once, with all that a  *)
(* function that succeeded has written, or with an error that has a        *)
(* reason.                                                                 *)
(***************************************************************************)
EXTENDS Naturals

CONSTANTS Outs, MaxStdio, Overhead

VARIABLES
    phase,    \* of the call: "idle", "open", "done"
    output,   \* what its function writes
    rootfs,   \* whether its root filesystem is there
    function, \* where the function is
    answer,   \* of what kind the answer is
    given,    \* how much it holds
    trouble   \* somebody gave up, time ran out or a step failed

vars == <<phase, output, rootfs, function, answer, given, trouble>>

Init ==
    /\ phase = "idle" /\ output = 0 /\ rootfs = FALSE /\ function = "none"
    /\ answer = "none" /\ given = 0 /\ trouble = FALSE

\* The size of an answer with all of the output.
Whole == IF output = 0 THEN 0 ELSE output + Overhead

Call(o) ==
    /\ phase = "idle"
    /\ phase' = "open" /\ output' = o
    /\ UNCHANGED <<rootfs, function, answer, given, trouble>>

MakeRootfs ==
    /\ phase # "idle" /\ function = "none"
    /\ rootfs' = TRUE
    /\ UNCHANGED <<phase, output, function, answer, given, trouble>>

Begin ==
    /\ rootfs /\ function = "none"
    /\ function' = "running"
    /\ UNCHANGED <<phase, output, rootfs, answer, given, trouble>>

\* It is not killed without a reason.
End ==
    /\ function = "running"
    /\ function' \in {"ok", "failed"} \/ (function' = "killed" /\ trouble)
    /\ UNCHANGED <<phase, output, rootfs, answer, given, trouble>>

\* Not while the function runs in it.
RemoveRootfs ==
    /\ function # "running" \/ trouble
    /\ rootfs' = FALSE
    /\ UNCHANGED <<phase, output, function, answer, given, trouble>>

Trouble ==
    /\ phase # "idle"
    /\ trouble' = TRUE
    /\ UNCHANGED <<phase, output, rootfs, function, answer, given>>

Answer ==
    /\ phase = "open" /\ function = "ok" /\ Whole <= MaxStdio
    /\ phase' = "done" /\ answer' = "ok" /\ given' = Whole
    /\ UNCHANGED <<output, rootfs, function, trouble>>

\* What fails may be the answer itself.
Error ==
    /\ phase = "open"
    /\ trouble' \in {trouble, TRUE}
    /\ trouble' \/ function = "failed" \/ Whole > MaxStdio
    /\ phase' = "done" /\ answer' = "error"
    /\ UNCHANGED <<output, rootfs, function, given>>

\* Nothing was begun.
Refuse ==
    /\ phase = "idle"
    /\ phase' = "done" /\ answer' = "error" /\ trouble' = TRUE
    /\ UNCHANGED <<output, rootfs, function, given>>

\* Nothing is left of the call before.
NextCall ==
    /\ phase = "done" /\ phase' = "idle"
    /\ output' = 0 /\ rootfs' = FALSE /\ function' = "none"
    /\ answer' = "none" /\ given' = 0 /\ trouble' = FALSE

Next ==
    \/ \E o \in Outs : Call(o)
    \/ MakeRootfs \/ Begin \/ End \/ RemoveRootfs \/ Trouble
    \/ Answer \/ Error \/ Refuse \/ NextCall

Spec == Init /\ [][Next]_vars
=============================================================================
