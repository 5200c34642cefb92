-------------------------- MODULE MCPaymentDunning --------------------------
(* PaymentDunning in two settings: two payments and one run of the job, or   *)
(* one payment (the other is let off first, and for good) under two runs,    *)
(* with the door that nothing calls.                                         *)
EXTENDS PaymentDunning

CONSTANTS
    Settings,   \* of "payments" and "sweeps"
    Second,     \* the payment "sweeps" does without
    SecondRun   \* the run "payments" does without

VARIABLE setting

mcvars == <<vars, setting>>

MCInit == Init /\ setting \in Settings

MCNext ==
    /\ Next
    /\ UNCHANGED setting
    /\ setting = "payments" => sweep'[SecondRun].at = "idle" /\ checked' = {}
    /\ setting = "sweeps" => status'[Second] = "not_charged" /\ Second \notin checked'

MCSpec ==
    /\ MCInit /\ [][MCNext]_mcvars
    /\ ClockFairness
    /\ \A s \in Sweeps \ {SecondRun} : RunFairness(s)

\* KeepsReminding where one run follows the other: two that overlap without
\* end would keep the clock from moving.
RemindedAgain == setting = "payments" => KeepsReminding

=============================================================================
