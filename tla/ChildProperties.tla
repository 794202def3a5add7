------------------------------ MODULE ChildProperties ------------------------------
(***************************************************************************)
(* What the supervisor of child agents owes to the parent session.         *)
(***************************************************************************)
EXTENDS ChildAgents

(* Types of everything in memory and on disk. *)
TypeOK ==
    /\ store \in [Child -> [dir : Directories, halted : BOOLEAN, journal : Seq(RunStates)]]
    /\ DOMAIN child = Child
    /\ \A c \in Child :
         /\ child[c].work \in Works
         /\ {child[c].stopped, child[c].cancelled, child[c].broken, child[c].notify} \subseteq BOOLEAN
         /\ \A i \in DOMAIN child[c].runs : child[c].runs[i] \in
              [id : 0..MaxRuns, status : {"running", "finished"}, delivered : BOOLEAN]
    /\ group \subseteq Child
    /\ told \subseteq RunOf /\ settled \subseteq told
    /\ announced \in Seq(RunOf)
    /\ session \in {"open", "closing", "leaving", "away", "down"}
    /\ restarts \in 0..MaxRestarts
    /\ interrupted \in BOOLEAN

(* The limit on running children holds for all of them: those being created,
   stopped or thrown away included, whatever was restored (maxActiveChildren). *)
ActiveLimit == session = "open" => Cardinality({c \in Child : Running(c)}) <= MaxActive

(* No more children run than may, and everything has its type. *)
WithinBounds == TypeOK /\ ActiveLimit

(* A child's run is taken off the mailbox only for what the parent's journal
   tells, so that a crash never loses it. *)
DeliveredIsTold == \A c \in Child : \A i \in DOMAIN child[c].runs :
    child[c].runs[i].delivered => <<c, child[c].runs[i].id>> \in told \union Range(announced)

(* Every run a child's journal has is one the parent can be told of: it is
   in memory while the child can be addressed, unless its launch failed
   together with the child's journal. *)
EveryRunKnown == \A c \in group : child[c].broken \/ \A i \in DOMAIN store[c].journal :
    \E k \in DOMAIN child[c].runs : child[c].runs[k].id = i

(* A run is shown as delivered without its outcome only if its child was
   stopped. *)
OutcomeIsTold == \A run \in told : run \in settled \/ child[run[1]].stopped \/ store[run[1]].halted

(* What the parent knows of a child stays on disk: a child that can be
   addressed, or that was told of, is one the next process will load. *)
KnownIsKept == group \union {run[1] : run \in told \union Range(announced)} \subseteq Published

(* Between memory, mailbox, journal and disk no run of a child is lost to the
   parent. *)
ParentIsTold == DeliveredIsTold /\ EveryRunKnown /\ OutcomeIsTold /\ KnownIsKept

(* The parent is told of a run by at most one event, and by none once a
   result told it. *)
AnnouncedOnce ==
    [][announced' # announced => Last(announced') \notin told \union Range(announced)]_vars

(* A stop that was recorded is final: no run of that child starts again, in
   this process or a later one. *)
StoppedForGood == [][\A c \in Child :
    store[c].halted => Len(store'[c].journal) <= Len(store[c].journal)]_vars

(* A clean exit and a switch leave no run open in a child's journal, except
   where the journal itself failed. *)
CleanExit == [][Left => \A c \in Published : child[c].broken \/
    \A i \in DOMAIN store[c].journal : store[c].journal[i] # "open"]_vars

(* What was told, stopped or closed stays so. *)
PastIsFinal == AnnouncedOnce /\ StoppedForGood /\ CleanExit

(* A check that waits, a stop and a launch return once the children's runs
   have ended or the parent's run is cancelled, and so do Close and a switch:
   no wake-up is lost. *)
Waiting == \/ call.step \in {"wait", "stopped", "launch", "discard"}
           \/ session \in {"closing", "leaving"}
CallsReturn == Waiting ~> ~Waiting
=============================================================================
