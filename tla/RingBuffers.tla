---------------------------- MODULE RingBuffers ----------------------------
(***************************************************************************)
(* The two rings of the text user interface: RuntimeLogBuffer, which keeps *)
(* the last lines of the log, and the samples of the traffic graph of the  *)
(* dashboard.  Both write at a head that wraps around and read the latest  *)
(* entries from a start they compute backwards from it.                    *)
(***************************************************************************)
EXTENDS Integers, Sequences

CONSTANTS
  RingSize,       \* capacity, runtimeSparklinePoints
  Entry           \* lines, rates

ASSUME RingAssumption == RingSize \in Nat \ {0}

VARIABLES
  lines, samples, \* the rings
  graph,          \* ShowDataplaneGraph
  logged, sampled \* what was written to each since it was empty: the last entries

ringVars == <<lines, samples, graph, logged, sampled>>

-----------------------------------------------------------------------------
EmptyRing(any) == [slots |-> [i \in 0 .. RingSize - 1 |-> any], head |-> 0, count |-> 0]

(* appendLineLocked, recordTrafficSample *)
Put(r, e) ==
  [slots |-> [r.slots EXCEPT ![r.head] = e],
   head |-> (r.head + 1) % RingSize,
   count |-> IF r.count < RingSize THEN r.count + 1 ELSE r.count]

(* copyTailLocked, ringSampleAt *)
Latest(r, n) ==
  LET start == (r.head - n + RingSize) % RingSize
  IN  [i \in 1 .. n |-> r.slots[(start + i - 1) % RingSize]]

LastOf(s, n) == SubSeq(s, Len(s) - n + 1, Len(s))
Remembered(s, e) == LastOf(Append(s, e), IF Len(s) < RingSize THEN Len(s) + 1 ELSE RingSize)

-----------------------------------------------------------------------------
RingInit ==
  /\ \E e \in Entry : lines = EmptyRing(e) /\ samples = EmptyRing(e)
  /\ graph = FALSE /\ logged = <<>> /\ sampled = <<>>

(* Write: one line of the chunk. *)
WriteLogLine ==
  /\ \E e \in Entry : lines' = Put(lines, e) /\ logged' = Remembered(logged, e)
  /\ UNCHANGED <<samples, graph, sampled>>

Sampled(e) == samples' = Put(samples, e) /\ sampled' = Remembered(sampled, e)

TakeSample ==
  /\ graph /\ \E e \in Entry : Sampled(e)
  /\ UNCHANGED <<lines, graph, logged>>

ClearedKeepsCount(r) == [r EXCEPT !.head = 0]  \* mutant
ClearedRing(r) == [r EXCEPT !.head = 0, !.count = 0]

(* handleGraphPreferenceChange: off clears, on takes the first sample. *)
ToggleGraph ==
  /\ graph' = ~graph
  /\ IF graph THEN samples' = ClearedRing(samples) /\ sampled' = <<>>
     ELSE \E e \in Entry : Sampled(e)
  /\ UNCHANGED <<lines, logged>>

RingNext == WriteLogLine \/ TakeSample \/ ToggleGraph
RingSpec == RingInit /\ [][RingNext]_ringVars

-----------------------------------------------------------------------------
(* Wherever the head is, every number of entries that may be asked for are *)
(* the last ones written, in their order: nothing from before the graph    *)
(* was switched off, and no line of a log that has wrapped around twice.   *)
RingsAreHistory ==
  /\ lines.count = Len(logged) /\ samples.count = Len(sampled)
  /\ \A n \in 0 .. lines.count : Latest(lines, n) = LastOf(logged, n)
  /\ \A n \in 0 .. samples.count : Latest(samples, n) = LastOf(sampled, n)
=============================================================================
