---------------------------- MODULE HoldoutRegistry ----------------------------
(***************************************************************************)
(* The registry of datasets and the marks of used holdouts: a directory    *)
(* that several processes read and write at once, and that each may leave  *)
(* half written (src/src/datasets.rs, secure_fs.rs; the commands of        *)
(* main.rs and the experiment of experiments.rs).                          *)
(***************************************************************************)
EXTENDS Integers, FiniteSets

CONSTANTS
    Processes,
    Manifests       \* [dataset, instruments, partitions: [role, from, to]]

ASSUME RegistryAssumption ==
    \A m \in Manifests : \A a, b \in m.partitions : a.from <= a.to /\ b.from <= b.to

VARIABLES
    entry,          \* the file of each dataset: [state, manifest]
    mark,           \* the state of the file of each manifest's holdout
    process,        \* [at, op, manifest, unread] of each command
    granted,        \* history: how often each manifest's holdout was given out
    together        \* history: the pairs of manifests registered at the same time

registry == <<entry, mark, process, granted, together>>

\* A file is "missing", "partial" or "whole".
NoManifest == [dataset |-> "none", instruments |-> {}, partitions |-> {}]
File(state, m) == [state |-> state, manifest |-> m]
Datasets == {m.dataset : m \in Manifests}
Free == [at |-> "idle", op |-> "none", manifest |-> NoManifest, unread |-> {}]

RegistryInit ==
    /\ entry = [d \in Datasets |-> File("missing", NoManifest)]
    /\ mark = [m \in Manifests |-> "missing"]
    /\ process = [p \in Processes |-> Free]
    /\ granted = [m \in Manifests |-> 0] /\ together = {}

\* validate_manifest: the partitions of one manifest do not overlap.
IntervalsOverlap(a, b) == a.from <= b.to /\ b.from <= a.to
ValidManifest(m) == \A a, b \in m.partitions : a # b => ~IntervalsOverlap(a, b)
Holdouts(m) == {a \in m.partitions : a.role = "SealedValidation"}

\* Mutant: a selection is not held against the holdouts that are there.
SelectionHoldoutOverlapOneWay(m, n) ==
    \E a \in m.partitions, b \in n.partitions :
        <<a.role, b.role>> = <<"Selection", "SealedValidation">> /\ IntervalsOverlap(a, b)

\* instruments_overlap, selection_holdout_overlap
SelectionHoldoutOverlap(m, n) ==
    \E a \in m.partitions, b \in n.partitions :
        {a.role, b.role} = {"Selection", "SealedValidation"} /\ IntervalsOverlap(a, b)
Conflict(m, n) == m.instruments \cap n.instruments # {} /\ SelectionHoldoutOverlap(m, n)

-----------------------------------------------------------------------------

\* A command goes on, or ends, whatever with.
Goes(p, at) == process' = [process EXCEPT ![p] = IF at = "ended" THEN Free ELSE [@ EXCEPT !.at = at]]
Registering == {"scan", "create", "write"}

\* register_dataset or consume_sealed_holdout with a manifest whose signature
\* and hash are right.
Command(p) ==
    /\ process[p] = Free
    /\ \E m \in Manifests, op \in {"register", "consume"} :
        /\ ValidManifest(m)
        /\ op = "consume" => Cardinality(Holdouts(m)) = 1
        /\ process' = [process EXCEPT ![p] = [at |-> "lookup", op |-> op, manifest |-> m, unread |-> {}]]
    /\ UNCHANGED <<entry, mark, granted, together>>

AfterEntry(p) == IF process[p].op = "consume" THEN "mark" ELSE "ended"

\* The file of the dataset is there already: it must be this manifest, whole.
LookUp(p) ==
    LET m == process[p].manifest
        there == entry[m.dataset] IN
    /\ process[p].at = "lookup"
    /\ IF there.state = "missing"
       THEN /\ process' = [process EXCEPT ![p].at = "scan", ![p].unread = Datasets]
            /\ together' = together \cup
                {{m, process[q].manifest} : q \in {r \in Processes \ {p} :
                    process[r].at \in Registering /\ process[r].manifest.dataset # m.dataset}}
       ELSE Goes(p, IF there = File("whole", m) THEN AfterEntry(p) ELSE "ended") /\ UNCHANGED together
    /\ UNCHANGED <<entry, mark, granted>>

\* reject_registry_overlap reads one file after the other; one that does not
\* parse is an error.
ScanEntry(p) ==
    /\ process[p].at = "scan"
    /\ \E d \in process[p].unread :
        IF entry[d].state = "partial" \/ Conflict(entry[d].manifest, process[p].manifest)
        THEN Goes(p, "ended")
        ELSE process' = [process EXCEPT ![p].unread = @ \ {d},
                                        ![p].at = IF process[p].unread = {d} THEN "create" ELSE "scan"]
    /\ UNCHANGED <<entry, mark, granted, together>>

\* Mutant: the file is written whether it is there or not.
MayCreateAlways(state) == TRUE
\* write_new: create_new
MayCreate(state) == state = "missing"

CreateEntry(p) ==
    LET d == process[p].manifest.dataset IN
    /\ process[p].at = "create"
    /\ IF MayCreate(entry[d].state)
       THEN entry' = [entry EXCEPT ![d] = File("partial", NoManifest)] /\ Goes(p, "write")
       ELSE Goes(p, "ended") /\ UNCHANGED entry
    /\ UNCHANGED <<mark, granted, together>>

WriteEntry(p) ==
    /\ process[p].at = "write"
    /\ entry' = [entry EXCEPT ![process[p].manifest.dataset] = File("whole", process[p].manifest)]
    /\ Goes(p, AfterEntry(p))
    /\ UNCHANGED <<mark, granted, together>>

\* A mark that is there refuses, whoever left it and however far it was written.
CreateMark(p) ==
    LET m == process[p].manifest IN
    /\ process[p].at = "mark"
    /\ IF MayCreate(mark[m]) THEN mark' = [mark EXCEPT ![m] = "partial"] /\ Goes(p, "sign")
                             ELSE Goes(p, "ended") /\ UNCHANGED mark
    /\ UNCHANGED <<entry, granted, together>>

WriteMark(p) ==
    /\ process[p].at = "sign"
    /\ mark' = [mark EXCEPT ![process[p].manifest] = "whole"]
    /\ granted' = [granted EXCEPT ![process[p].manifest] = @ + 1]
    /\ Goes(p, "ended")
    /\ UNCHANGED <<entry, together>>

\* A write fails or the process dies: what it created stays as it is.
CommandFails(p) ==
    /\ process[p] # Free
    /\ Goes(p, "ended")
    /\ UNCHANGED <<entry, mark, granted, together>>

RegistryNext ==
    \E p \in Processes :
        \/ Command(p) \/ LookUp(p) \/ ScanEntry(p) \/ CreateEntry(p) \/ WriteEntry(p)
        \/ CreateMark(p) \/ WriteMark(p) \/ CommandFails(p)

-----------------------------------------------------------------------------

\* A holdout is given out once, whichever processes ask for it at the same time,
\* with the same manifest or another of the same dataset, and wherever one of
\* them died: a mark that exists refuses even when it is half written.  And no
\* sessions of an instrument select in one registered dataset and validate in
\* another, except in two that were being registered at the same time, neither
\* of which could read the other.
HoldoutsStaySealed ==
    /\ \A m, n \in Manifests :
        granted[m] <= 1 /\ (m.dataset = n.dataset /\ granted[m] > 0 /\ granted[n] > 0 => m = n)
    /\ \A d, e \in Datasets :
        d # e /\ Conflict(entry[d].manifest, entry[e].manifest)
        => {entry[d].manifest, entry[e].manifest} \in together
=============================================================================
