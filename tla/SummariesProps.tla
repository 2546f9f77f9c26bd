---------------------------- MODULE SummariesProps ----------------------------
(* What the stored summaries promise to the queries that read them. *)
EXTENDS Summaries

\* Overlapping commands, failed ones and summaries that come back from an earlier
\* state of the book never leave two valid summaries of the same scope.
OneValidPerScope ==
  \A a, b \in Valid : a.level = b.level /\ a.volume = b.volume => a = b

HasMemory(v) == \E c \in ChaptersOf(v) : view.memory[c] # None

\* After a summarize of the whole book that ran to its end undisturbed, each volume of
\* the current grouping is summarized from the claims of the run that is served, and
\* the book from exactly these summaries, whatever changed, fell back to an earlier
\* state or died half way through a reduction before.  Nothing is said where a command
\* has left summaries of another grouping valid (leftover, a condition of settled):
\* no summarize makes up for that.
SummariesCurrent ==
  settled =>
    LET vols == {v \in CurrentVolumes : HasMemory(v)}
        now  == {a \in Valid : a.level = "volume" /\ a.volume \in vols}
        in(C) == [c \in {d \in C : view.memory[d] # None} |-> view.memory[c]]
    IN /\ \A v \in vols : \E a \in now : a.volume = v /\ a.inputs = in(ChaptersOf(v))
       /\ \E b \in Valid : /\ b.level = "book" /\ b.inputs = in(Chapters)
                           /\ b.deps = {Id(a) : a \in now}

\* The summaries of a grouping end with it, unless a command died between writing
\* the new volumes and ending them, or was still busy with a grouping that was not
\* current any more: no later command makes up for that.
OldGroupingsEnd ==
  settled => \A a \in Valid : a.level = "volume" =>
               \E n \in Current : groupings[n].version = a.version
-------------------------------------------------------------------------------
(* The strengthenings that make these properties inductive. *)

Fields == {"step", "cutoff", "todo", "mem", "made", "version", "size", "only", "alone"}
ArtifactFields == {"level", "volume", "gist", "inputs", "deps", "version", "status"}

Shapes ==
  /\ groupings \in Seq([version : Nat, size : Sizes])
  /\ DOMAIN job = Commands
  /\ \A p \in Commands : /\ DOMAIN job[p] = Fields
                         /\ job[p] # Idle => job[p].version \in Nat /\ job[p].size \in Sizes
                         /\ job[p].todo \subseteq Nat \X Nat
  /\ \A a \in artifacts : DOMAIN a = ArtifactFields

\* What a valid summary of a volume was made for is current, or a command is about
\* to end it.
LeftInv ==
  leftover \/ \A a \in Valid : a.level = "volume" =>
                \E n \in Current : \/ groupings[n].version = a.version
                                   \/ \E q \in Commands : /\ job[q].step = "stale"
                                                          /\ job[q].version = groupings[n].version

\* Where a command that has been alone all the time is.
Undisturbed(p) == job[p] # Idle /\ job[p].alone

GroupingInv(p) ==
  /\ job[p].step = "write" =>
       \/ Current = {}
       \/ \E n \in Current : job[p].version = groupings[n].version + 1
  /\ job[p].step = "stale" /\ Timely(p) => job[p].todo = CurrentVolumes
  /\ job[p].step = "read" => leftover \/ job[p].todo = CurrentVolumes
  /\ job[p].step \in {"group", "write", "stale", "read"} => job[p].made = {}

ReducingInv(p) ==
  job[p].step \in {"volume", "save", "saveBook"} =>
    /\ leftover \/ {v \in CurrentVolumes : ChaptersOf(v) \cap Known(p) # {}}
                     = job[p].todo \cup {a.volume : a \in job[p].made}
    /\ job[p].made \subseteq Valid
    /\ \A a \in job[p].made : /\ a.level = "volume" /\ a.volume \notin job[p].todo
                             /\ a.inputs = Inputs(p, ChaptersOf(a.volume))
    /\ job[p].step = "save" => job[p].todo # {}
    /\ job[p].step = "saveBook" => job[p].todo = {}

AloneInv ==
  \A p \in Commands : Undisturbed(p) =>
    /\ \A q \in Commands : q = p \/ job[q] = Idle
    /\ GroupingInv(p) /\ ReducingInv(p)

SettledInv == settled => ~leftover /\ \A p \in Commands : job[p] = Idle
===============================================================================
