------------------------------ MODULE Bootstrap ------------------------------
(***************************************************************************)
(* One pod that runs a script of BootScripts on its volume until the node  *)
(* starts, with what may happen to it on the way: a download that breaks   *)
(* off or delivers something else, a container killed between any two      *)
(* writes or inside one, a restart of the running node.                    *)
(*                                                                         *)
(* A file is absent ("none"), unfinished ("part"), what a tool generates   *)
(* by default ("own"), complete but not the one that was pinned ("wrong"), *)
(* or the right one ("good"). What the node has written is "young" as long *)
(* as a script that looks at its size or its marks takes it for nothing,   *)
(* and "live" after that; an archive extracted over young data is an       *)
(* "overlay".                                                              *)
(***************************************************************************)
EXTENDS BootScripts, FiniteSets

CONSTANTS
  Scenarios,   \* pairs of a script and the faults that it meets
  MaxHits      \* bound on the faults and restarts of a behaviour

VARIABLES
  scenario,    \* the script and the faults of this behaviour
  files,       \* the volume
  pc,          \* the next instruction
  busy,        \* the instruction is under way
  running,     \* the node runs
  hits         \* faults and restarts so far

vars == <<files, pc, busy, running, hits>>

script == Scripts[scenario.script]
faults == scenario.faults

Files ==
  {"marker", "part", "genesis", "config", "app", "topology", "key", "jwt",
   "dl", "toolbox", "db", "chain", "dump", "tmp", "bor", "heimdall", "image"}

Contents ==
  {"none", "part", "own", "wrong", "good", "young", "overlay", "live"}

Slow == {"get", "stream", "unpack", "found", "add", "generate", "copy", "put"}

I == script.steps[pc]

Init ==
  /\ scenario \in Scenarios
  /\ files = [f \in Files |-> IF f = "image" THEN "good" ELSE "none"]
  /\ pc = 1 /\ busy = FALSE /\ running = FALSE /\ hits = 0

-----------------------------------------------------------------------------
(* Control. An error ends the container: the kubelet starts an init        *)
(* container over, and the main container alone.                           *)
Restarted == IF pc < script.main THEN {1} ELSE {script.main}

Forward == pc' = pc + 1

Failed ==
  IF I.to = Exit THEN pc' \in Restarted ELSE pc' = pc + 1 + I.to

Write(f, c) == files' = [files EXCEPT ![f] = c]

Test ==
  LET holds ==
        CASE I.op = "exists" -> {files[I.f] # "none"}
          [] I.op = "pinned" -> {files[I.f] = "good"}
          [] I.op = "large"  -> IF files[I.f] \in {"part", "own", "overlay"}
                                THEN BOOLEAN
                                ELSE {files[I.f] \notin {"none", "young"}}
          [] I.op = "maybe"  -> BOOLEAN
          [] OTHER           -> {TRUE}
  IN /\ I.op \in {"exists", "pinned", "large", "maybe", "skip"}
     /\ \E b \in holds : pc' = IF b THEN pc + 1 + I.to ELSE pc + 1
     /\ UNCHANGED <<files, busy, running, hits>>

(* What a command is given is complete. *)
Usable ==
  I.op \in {"unpack", "found", "add"} => files[I.g] \in {"good", "wrong"}

(* Operations that take effect at once. *)
Quick ==
  /\ \/ /\ I.op = "verify" /\ files[I.f] = "good" /\ Forward /\ UNCHANGED files
     \/ /\ I.op = "verify" /\ files[I.f] # "good" /\ Failed /\ Write(I.f, "none")
     \/ /\ I.op = "move" /\ Forward
        /\ files' = [files EXCEPT ![I.g] = files[I.f], ![I.f] = "none"]
     \/ I.op = "read" /\ Forward /\ Write(I.g, files[I.f])
     \/ I.op = "remove" /\ Forward /\ Write(I.f, "none")
     \/ I.op = "touch" /\ Forward /\ Write(I.f, "good")
     \/ I.op = "edit" /\ files[I.f] = "own" /\ Forward /\ Write(I.f, "good")
     \/ /\ I.op = "edit" /\ files[I.f] # "own"
        /\ IF files[I.f] = "none" THEN Failed ELSE Forward
        /\ UNCHANGED files
     \/ I.op = "fail" /\ Failed /\ UNCHANGED files
     \/ I.op = "found" /\ ~busy /\ ~Usable /\ Failed /\ UNCHANGED files
  /\ UNCHANGED <<busy, running, hits>>

(* Operations that take time start by opening their file, except that a    *)
(* database, once there, is changed by transactions, and an archive is     *)
(* extracted into what is there.                                           *)
Opened ==
  CASE I.op = "found" /\ files[I.f] # "none"                   -> files[I.f]
    [] I.op \in {"unpack", "stream"} /\ files[I.f] = "young"   -> "overlay"
    [] I.op \in {"unpack", "stream", "add"} /\ files[I.f] = "overlay"
                                                              -> "overlay"
    [] OTHER                                                  -> "part"

Begin ==
  /\ I.op \in Slow /\ ~busy
  /\ I.op = "found" => Usable
  /\ busy' = TRUE
  /\ Write(I.f, Opened)
  /\ UNCHANGED <<pc, running, hits>>

(* What they leave when they succeed. *)
Result ==
  IF \/ I.op = "found" /\ files[I.f] \in {"good", "young", "live"}
     \/ files[I.f] = "overlay"
  THEN files[I.f]
  ELSE CASE I.op \in {"get", "stream", "copy"}  -> "good"
         [] I.op = "generate"                   -> "own"
         [] I.op = "add"                        -> "part"
         [] I.op \in {"unpack", "found", "put"} -> files[I.g]

End ==
  /\ I.op \in Slow /\ busy
  /\ busy' = FALSE
  /\ \/ Usable /\ Forward /\ Write(I.f, Result)
     \/ ~Usable /\ Failed /\ UNCHANGED files
  /\ UNCHANGED <<running, hits>>

(* The node starts on what there is, and exits when a file is missing. *)
Exec ==
  /\ I.op = "run" /\ ~running
  /\ \/ /\ \A f \in script.needs : files[f] # "none"
        /\ running' = TRUE /\ UNCHANGED pc
     \/ /\ \E f \in script.needs : files[f] = "none"
        /\ pc' \in Restarted /\ UNCHANGED running
  /\ UNCHANGED <<files, busy, hits>>

Proceed == Test \/ Quick \/ Begin \/ End \/ Exec

-----------------------------------------------------------------------------
(* The running node fills its data directory: what it was given, or what   *)
(* it begins itself and what may be small when it is stopped.              *)
Grown(c) ==
  CASE c \in {"none", "own", "young"} -> {"young", "live"}
    [] c = "overlay"                  -> {"overlay"}
    [] OTHER                          -> {"live"}

Grow ==
  /\ running
  /\ \/ \E f \in script.data : \E c \in Grown(files[f]) : Write(f, c)
     \/ script.data = {} /\ UNCHANGED files
  /\ UNCHANGED <<pc, busy, running, hits>>

Hit == hits < MaxHits /\ hits' = hits + 1

(* The pod is deleted, or the container of the node restarts. *)
Restart ==
  /\ running /\ Hit
  /\ running' = FALSE
  /\ pc' \in {1, script.main}
  /\ UNCHANGED <<files, busy>>

(* "kill": the container is killed at any moment of the script; "stop":    *)
(* while it downloads into a file.                                         *)
Killable ==
  \/ "kill" \in faults
  \/ "stop" \in faults /\ busy /\ I.op = "get"

(* Slip: the killed operation goes on in the next container. *)
KillResumed ==
  /\ Killable /\ ~running /\ Hit
  /\ pc' \in {1} \union Restarted
  /\ UNCHANGED <<files, busy, running>>

Kill ==
  /\ Killable /\ ~running /\ Hit
  /\ pc' \in {1} \union Restarted
  /\ busy' = FALSE
  /\ UNCHANGED <<files, running>>

(* A download breaks off: "drop" to a file, "cut" into an extraction. *)
Break ==
  /\ busy /\ Hit
  /\ \/ I.op = "get" /\ "drop" \in faults
     \/ I.op = "stream" /\ "cut" \in faults
  /\ Failed
  /\ busy' = FALSE
  /\ UNCHANGED files \/ Write(I.f, "none")
  /\ UNCHANGED running

(* The server delivers something else than it should: "wrong" as a file,   *)
(* "foreign" as the archive of an extraction.                              *)
Deliver ==
  /\ busy /\ Hit
  /\ \/ I.op = "get" /\ "wrong" \in faults
     \/ I.op = "stream" /\ "foreign" \in faults
  /\ Forward /\ Write(I.f, "wrong")
  /\ busy' = FALSE
  /\ UNCHANGED running

Step == Proceed \/ Grow \/ Restart \/ Kill \/ Break \/ Deliver

Next == Step /\ UNCHANGED scenario

(* The kubelet restarts what ends, and a container that runs makes         *)
(* progress.                                                               *)
Fairness == WF_<<vars, scenario>>(Proceed /\ UNCHANGED scenario)

Spec == Init /\ [][Next]_<<vars, scenario>> /\ Fairness

-----------------------------------------------------------------------------
(* Types of all variables; only an operation that takes time is under way, *)
(* also after a kill.                                                      *)
TypeOK ==
  /\ scenario \in Scenarios
  /\ files \in [Files -> Contents]
  /\ pc \in 1..Len(script.steps)
  /\ busy \in BOOLEAN /\ running \in BOOLEAN
  /\ busy => I.op \in Slow
  /\ hits \in 0..MaxHits

(* The faults that each script withstands: those that a start after them   *)
(* finds and repairs.                                                      *)
Withstands ==
  LET all == {"kill", "stop", "drop", "cut", "wrong", "foreign"}
  IN  [blast |-> all, viction |-> all, morph |-> all, berachain |-> all,
       thundercore |-> all \ {"foreign"},
       cosmos |-> {"stop", "drop", "wrong"}, cardano |-> {"stop", "drop"},
       snapshot |-> {"stop", "drop"}, polygon |-> {"stop", "drop"},
       ethereum |-> {"stop", "drop"},
       immutable |-> {}, aptos |-> {}, sui |-> {}, near |-> {},
       stellar |-> {}, ton |-> {}, litecoin |-> {"stop"}]

Withstood == faults \subseteq Withstands[scenario.script]

(* The scripts that decide by size or by marks whether there is a          *)
(* database; those of the restore do not remove what they take for nothing *)
(* but extract over it.                                                    *)
Restoring == {"snapshot", "ethereum", "litecoin"}
Judging   == Restoring \union {"stellar", "ton", "sui"}

(* The node never starts on an unfinished, a generated or another file     *)
(* where the script has to provide one, nor on a half-restored database:   *)
(* whatever was interrupted is found and redone on the next start, unless  *)
(* the script does not withstand it. The restore of a snapshot over what a *)
(* node began without one is an exception that the code makes on purpose.  *)
StartsOnPinned ==
  Withstood /\ running =>
    /\ \A f \in script.needs : files[f] \in {"good", "live"}
    /\ \A f \in script.optional :
         \/ files[f] \in {"none", "own", "good", "young", "live"}
         \/ files[f] = "overlay" /\ scenario.script \in Restoring

(* Data that the node has synced is not removed or overwritten by the      *)
(* script of a later start, however little it is; only the scripts that    *)
(* judge it by size or marks may take the little it began with for         *)
(* nothing.                                                                *)
LiveDataKept ==
  [][Withstood => \A f \in Files :
       /\ files[f] = "live" => files'[f] = "live"
       /\ files[f] = "young" /\ scenario.script \notin Judging =>
            files'[f] \in {"young", "live"}]_<<vars, scenario>>

(* The comment of cosmosNode.Command: "genesis.json is written last, so an *)
(* interrupted first start is redone from scratch on the next one"         *)
(* (cosmos_init.go:94-95). So whatever start was interrupted, a node that  *)
(* runs has the pinned genesis and the files written before it.            *)
InterruptedStartRedone ==
  running => \A f \in script.needs : files[f] \in {"good", "live"}

(* The bootstrap implements Volume: what has arrived stays, the node runs  *)
(* only on a complete volume, and runs again after every interruption.     *)
Missing == {f \in script.durable : files[f] \notin {"good", "live"}}

V == INSTANCE Volume WITH missing <- Missing

ImplementsVolume == V!Spec

(* The faults and scripts that the model knows. *)
ASSUME KnownScenarios ==
  /\ \A s \in Scenarios :
       /\ s.script \in DOMAIN Scripts
       /\ s.faults \subseteq
            {"kill", "stop", "drop", "cut", "wrong", "foreign"}
  /\ MaxHits \in Nat
=============================================================================
