-------------------------- MODULE MCEntryGeneration --------------------------
(* EntryGeneration in weeks of two days of two slots, in one of the settings *)
(*   "sweeps"   one rule, two sweeps and a request: the teacher changes the  *)
(*              rule while it is generated, and a transaction may fail;      *)
(*   "archives" one rule, a sweep and two requests: it is archived while its *)
(*              classes are booked, queued for and moved, today's too;       *)
(*   "spots"    two rules, a sweep and a request: other entries are in the   *)
(*              way, one of them past midnight;                              *)
(*   "window"   the two rules alone, for the window to be filled: only here   *)
(*              is anything sure to go on.                                    *)
EXTENDS EntryGeneration

CONSTANTS Settings,
          Second,         \* the rule, the sweep and the request only some
          SecondSweep,    \* settings have
          SecondRequest

VARIABLE setting

mcvars == <<vars, setting>>

\* Two days at one time; two times of one day; a slot that runs past midnight.
Monday == [day |-> 0, time |-> 0, len |-> 1]
Tuesday == [day |-> 1, time |-> 0, len |-> 1]
MondayLate == [day |-> 0, time |-> 1, len |-> 2]

MCSlots == {Monday, Tuesday, MondayLate}
MCSpots == {[date |-> 2, time |-> 0, len |-> 2], [date |-> 3, time |-> 1, len |-> 1]}

\* The calls made, the slots, and the bounds.
DoorsOf ==
    [sweeps |-> {"resume", "pause", "edit", "archive", "unarchive", "cancel"},
     archives |-> {"resume", "archive", "unarchive", "book", "queue", "unbook", "move"},
     spots |-> {"create", "edit", "oneoff", "cancel", "restore", "archive"},
     window |-> {"create", "edit", "cancel", "restore", "archive"}]
Alone(slots) ==
    /\ \A r \in Rules : IF r = Second THEN rule[r].slot = None ELSE rule[r].slot \in slots
    /\ \A w \in Workers : Second \notin job[w].todo
Spill ==
    /\ \A r \in Rules : rule[r].slot # Monday
    /\ \A w \in Workers : job[w].slot # Monday
InSetting ==
    CASE setting = "sweeps" ->
            /\ calls <= 3 /\ now <= 2 /\ job[SecondRequest] = Idle
            /\ Alone({Monday, Tuesday})
      [] setting = "archives" ->
            /\ now <= 2 /\ failures = 0 /\ job[SecondSweep] = Idle
            /\ Alone({Tuesday}) /\ \A e \in entries : e.date <= 4
      [] setting = "spots" ->
            /\ calls <= 3 /\ now <= 1 /\ failures = 0
            /\ job[SecondSweep] = Idle /\ job[SecondRequest] = Idle
            /\ Spill
      [] setting = "window" ->
            /\ calls <= 2 /\ now <= 1
            /\ job[SecondSweep] = Idle /\ job[SecondRequest] = Idle
            /\ Spill

MCInit == setting \in Settings /\ doors = DoorsOf[setting] /\ Init /\ InSetting
MCNext == Next /\ UNCHANGED setting /\ InSetting'
MCSpec == MCInit /\ [][MCNext]_mcvars

\* The hourly jobs come back and a transaction ends: each has a time limit.
InWindow(A) == setting = "window" /\ A /\ UNCHANGED doors
FairMCSpec ==
    /\ MCSpec
    /\ \A w \in Workers \ {SecondSweep, SecondRequest} : WF_vars(InWindow(Generates(w)))
    /\ \A w \in Requests \ {SecondRequest} : WF_vars(InWindow(Answers(w)))
    /\ \A w \in Sweepers \ {SecondSweep} : WF_vars(InWindow(Sweeps(w)))

\* Once the teacher leaves the schedule alone, what can be filled is filled.
TimedWindow == setting = "window" => WindowFilled
=============================================================================
