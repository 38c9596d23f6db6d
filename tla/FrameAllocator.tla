--------------------------- MODULE FrameAllocator ---------------------------
(***************************************************************************)
(* What the physical memory manager promises its callers, with no bitmap:  *)
(* frames of a fixed pool are handed out singly, in runs, or in aligned    *)
(* huge blocks; a frame has at most one holder; a call fails (NULL) only   *)
(* when nothing that would satisfy it is free.                             *)
(***************************************************************************)
EXTENDS Integers

CONSTANTS
  Pool,        \* frames that may be handed out at all
  HugeFrames,  \* frames in a huge block
  HugeStarts,  \* first frames of the aligned huge blocks of the machine
  RunLengths,  \* lengths callers ask contiguous runs of
  Null         \* what a failing call returns

VARIABLES
  frames,      \* frames held singly or as part of a contiguous run
  huges,       \* first frames of the huge blocks held
  asked,       \* what the last allocating call asked for
  ret          \* what it returned

vars == <<frames, huges, asked, ret>>

HugeBlock(h) == h .. (h + HugeFrames - 1)
Free == Pool \ (frames \cup UNION {HugeBlock(h) : h \in huges})
FreeRun(s, n) == s .. (s + n - 1) \subseteq Free

Init == frames = {} /\ huges = {} /\ asked = <<"frames", 0>> /\ ret = Null

TakeRun(s, n) ==
  /\ n > 0 /\ FreeRun(s, n)
  /\ frames' = frames \cup s .. (s + n - 1)
  /\ asked' = <<"frames", n>>
  /\ ret' = s
  /\ UNCHANGED huges

TakeHuge(h) ==
  /\ HugeBlock(h) \subseteq Free
  /\ huges' = huges \cup {h}
  /\ asked' = <<"huge", 1>>
  /\ ret' = h
  /\ UNCHANGED frames

NoRun(n) ==
  /\ n = 0 \/ \A s \in Pool : ~FreeRun(s, n)
  /\ asked' = <<"frames", n>>
  /\ ret' = Null
  /\ UNCHANGED <<frames, huges>>

NoHuge ==
  /\ \A h \in HugeStarts : ~(HugeBlock(h) \subseteq Free)
  /\ asked' = <<"huge", 1>>
  /\ ret' = Null
  /\ UNCHANGED <<frames, huges>>

GiveFrame(f) == frames' = frames \ {f} /\ UNCHANGED <<huges, asked, ret>>

GiveHuge(h) == huges' = huges \ {h} /\ UNCHANGED <<frames, asked, ret>>

Next ==
  \/ \E s \in Pool, n \in RunLengths \cup {1} : TakeRun(s, n)
  \/ \E h \in HugeStarts : TakeHuge(h)
  \/ \E n \in RunLengths \cup {1} : NoRun(n)
  \/ NoHuge
  \/ \E f \in frames : GiveFrame(f)
  \/ \E h \in huges : GiveHuge(h)

Spec == Init /\ [][Next]_vars
=============================================================================
