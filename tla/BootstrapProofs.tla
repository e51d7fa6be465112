-------------------------- MODULE BootstrapProofs --------------------------
(***************************************************************************)
(* Theorems about Bootstrap, for every number of faults and restarts.      *)
(***************************************************************************)
EXTENDS Bootstrap, TLAPS

(* What makes a script one that can be run: its jumps stay inside, tests   *)
(* cannot fail, only the last instruction starts the node, and an          *)
(* instruction that is about files names some.                             *)

Tests == {"exists", "pinned", "large", "maybe", "skip"}

Ops == Tests \cup Slow
       \cup {"verify", "move", "read", "remove", "touch", "edit", "fail", "run"}

WellFormedAt(s, i) ==
  LET j == s.steps[i]
  IN  /\ j.op \in Ops
      /\ j.op \notin {"maybe", "skip", "fail", "run"}
           => j.f \in Files /\ j.g \in Files
      /\ j.to \in Int
      /\ j.op = "run" <=> i = Len(s.steps)
      /\ j.op \in Tests => j.to # Exit
      /\ j.to # Exit => i + 1 + j.to \in 1 .. Len(s.steps)

WellFormed(s) == /\ Len(s.steps) \in Nat
                 /\ s.main \in 1 .. Len(s.steps)
                 /\ \A i \in 1 .. Len(s.steps) : WellFormedAt(s, i)

\* Every script of the repository is well-formed.
LEMMA ScriptsWellFormed ==
  ASSUME NEW name \in DOMAIN Scripts
  PROVE  WellFormed(Scripts[name])
<1> USE DEF WellFormed, WellFormedAt, Ops, Tests, Slow, Files, Instruction, Exit,
       NoFile, Unless, Pinned, Large, Maybe, Skip, Get, Stream, Verify, Unpack,
       Found, Add, Generate, Copy, Read, Put, Edit, Move, Remove, Touch, Fail,
       Run, Script, fetch
<1>1. WellFormed(blast)
  BY DEF blast
<1>2. WellFormed(viction)
  BY DEF viction
<1>3. WellFormed(morph)
  BY DEF morph
<1>4. WellFormed(berachain)
  BY DEF berachain
<1>5. WellFormed(thundercore)
  BY SMTT(30) DEF thundercore
<1>6. WellFormed(cosmosNode)
  BY DEF cosmosNode
<1>7. WellFormed(immutable)
  BY DEF immutable
<1>8. WellFormed(aptos)
  BY DEF aptos
<1>9. WellFormed(sui)
  BY DEF sui
<1>10. WellFormed(near)
  BY DEF near
<1>11. WellFormed(cardano)
  BY DEF cardano
<1>12. WellFormed(stellar)
  BY DEF stellar
<1>13. WellFormed(ton)
  BY DEF ton
<1>14. WellFormed(snapshot)
  BY DEF snapshot
<1>15. WellFormed(snapshotPolygon)
  BY DEF snapshotPolygon
<1>16. WellFormed(snapshotEthereum)
  BY DEF snapshotEthereum
<1>17. WellFormed(snapshotLitecoin)
  BY DEF snapshotLitecoin
<1> HIDE DEF WellFormed
<1> QED
  BY <1>1, <1>2, <1>3, <1>4, <1>5, <1>6, <1>7, <1>8, <1>9, <1>10, <1>11, <1>12, <1>13, <1>14, <1>15, <1>16, <1>17 DEF Scripts
-----------------------------------------------------------------------------
(* Type correctness. A node that runs is at the last instruction, and only *)
(* an operation that takes time is under way.                              *)

Typed == /\ files \in [Files -> Contents]
         /\ pc \in 1 .. Len(script.steps)
         /\ busy \in BOOLEAN /\ running \in BOOLEAN
         /\ hits \in 0 .. MaxHits

InStep == /\ busy => I.op \in Slow
          /\ running => I.op = "run"

BootInv == WellFormed(script) /\ Typed /\ InStep

\* A step of the specification is a step of the same script and faults.
LEMMA NextIsStep ==
  [Next]_<<vars, scenario>> => [Step]_vars /\ UNCHANGED scenario
BY DEF Next, Step, vars

\* Wherever a script goes on, there is an instruction.
LEMMA Targets ==
  ASSUME WellFormed(script), pc \in 1 .. Len(script.steps)
  PROVE  /\ WellFormedAt(script, pc)
         /\ 1 \in 1 .. Len(script.steps) /\ script.main \in 1 .. Len(script.steps)
         /\ Restarted \subseteq 1 .. Len(script.steps)
         /\ I.op # "run" => pc + 1 \in 1 .. Len(script.steps)
         /\ I.to # Exit => pc + 1 + I.to \in 1 .. Len(script.steps)
         /\ Failed => pc' \in 1 .. Len(script.steps)
<1>1. /\ Len(script.steps) \in Nat /\ script.main \in 1 .. Len(script.steps)
      /\ WellFormedAt(script, pc)
  BY DEF WellFormed
<1>2. /\ I.op # "run" => pc + 1 \in 1 .. Len(script.steps)
      /\ I.to # Exit => pc + 1 + I.to \in 1 .. Len(script.steps)
  BY <1>1 DEF WellFormedAt, I
<1>3. 1 \in 1 .. Len(script.steps) /\ Restarted \subseteq 1 .. Len(script.steps)
  BY <1>1 DEF Restarted
<1> QED
  BY <1>1, <1>2, <1>3 DEF Failed

\* A test moves the program counter and nothing else.
LEMMA TestTyped ==
  ASSUME BootInv, UNCHANGED scenario, Test
  PROVE  Typed' /\ InStep'
<1>0. script' = script
  BY DEF script
<1>1. I.op \in Tests /\ UNCHANGED <<files, busy, running, hits>>
      /\ pc' \in {pc + 1, pc + 1 + I.to}
  BY DEF Test, Tests
<1>2. I.to # Exit /\ I.op # "run" /\ I.op \notin Slow
  BY <1>1, Targets DEF BootInv, Typed, WellFormedAt, I, Tests, Slow
<1>3. pc' \in 1 .. Len(script.steps)
  BY <1>1, <1>2, Targets DEF BootInv, Typed
<1> QED
  BY <1>0, <1>1, <1>2, <1>3 DEF BootInv, Typed, InStep

\* An operation leaves known contents in the file it is about.
LEMMA WriteTyped ==
  ASSUME NEW f, NEW c \in Contents, files \in [Files -> Contents], Write(f, c)
  PROVE  files' \in [Files -> Contents]
BY DEF Write

\* Operations that take effect at once.
LEMMA QuickTyped ==
  ASSUME BootInv, UNCHANGED scenario, Quick
  PROVE  Typed' /\ InStep'
<1>0. script' = script
  BY DEF script
<1>1. I.op \in {"verify", "move", "read", "remove", "touch", "edit", "fail"}
      \/ (I.op = "found" /\ ~busy)
  BY DEF Quick
<1>2. I.op # "fail" => I.f \in Files /\ I.g \in Files
  BY <1>1, Targets DEF BootInv, Typed, WellFormedAt, I
<1>3. busy' = FALSE /\ running' = FALSE /\ hits' = hits
  BY <1>1 DEF Quick, BootInv, InStep, Slow, Typed
<1>4. pc' \in 1 .. Len(script.steps)
  <2>1. Forward \/ Failed
    BY DEF Quick
  <2> QED BY <1>1, <2>1, Targets DEF BootInv, Typed, Forward
<1>5. files' \in [Files -> Contents]
  BY <1>1, <1>2 DEF Quick, Write, BootInv, Typed, Contents
<1> QED
  BY <1>0, <1>3, <1>4, <1>5 DEF BootInv, Typed, InStep

\* How an operation that takes time leaves its file when it begins.
LEMMA OpenedIs ==
  /\ I.op = "found" =>
       Opened = IF files[I.f] # "none" THEN files[I.f] ELSE "part"
  /\ I.op \in {"unpack", "stream"} =>
       Opened = IF files[I.f] \in {"young", "overlay"} THEN "overlay" ELSE "part"
  /\ I.op = "add" =>
       Opened = IF files[I.f] = "overlay" THEN "overlay" ELSE "part"
  /\ I.op \in {"get", "generate", "copy", "put"} => Opened = "part"
<1>1. CASE I.op = "found"
  BY <1>1 DEF Opened
<1>2. CASE I.op \in {"unpack", "stream"}
  BY <1>2 DEF Opened
<1>3. CASE I.op = "add"
  BY <1>3 DEF Opened
<1>4. CASE I.op \in {"get", "generate", "copy", "put"}
  BY <1>4 DEF Opened
<1> QED
  BY <1>1, <1>2, <1>3, <1>4

\* And when it succeeds.
LEMMA ResultIs ==
  LET kept == \/ I.op = "found" /\ files[I.f] \in {"good", "young", "live"}
              \/ files[I.f] = "overlay"
  IN  /\ kept => Result = files[I.f]
      /\ ~kept /\ I.op \in {"get", "stream", "copy"} => Result = "good"
      /\ ~kept /\ I.op = "generate" => Result = "own"
      /\ ~kept /\ I.op = "add" => Result = "part"
      /\ ~kept /\ I.op \in {"unpack", "found", "put"} => Result = files[I.g]
<1>1. CASE I.op \in {"get", "stream", "copy"}
  BY <1>1 DEF Result
<1>2. CASE I.op = "generate"
  BY <1>2 DEF Result
<1>3. CASE I.op = "add"
  BY <1>3 DEF Result
<1>4. CASE I.op \in {"unpack", "found", "put"}
  BY <1>4 DEF Result
<1>5. CASE files[I.f] = "overlay"
  BY <1>5 DEF Result
<1> QED
  BY <1>1, <1>2, <1>3, <1>4, <1>5

\* Operations that take time, also when they break off or deliver another file.
LEMMA SlowTyped ==
  ASSUME BootInv, UNCHANGED scenario, Begin \/ End \/ Break \/ Deliver
  PROVE  Typed' /\ InStep'
<1>0. script' = script /\ MaxHits \in Nat
  BY KnownScenarios DEF script
<1>1. I.op \in Slow /\ running = FALSE /\ running' = FALSE
  BY DEF Begin, End, Break, Deliver, BootInv, InStep, Typed, Slow
<1>2. I.f \in Files /\ I.g \in Files /\ I.op # "run"
  BY <1>1, Targets DEF BootInv, Typed, WellFormedAt, I, Slow
<1>3. CASE Begin
  <2>1. pc' = pc /\ I' = I
    BY <1>0, <1>3 DEF Begin, I
  <2>2. files' \in [Files -> Contents]
    <3>1. Opened \in Contents
      BY <1>1, <1>2, OpenedIs DEF BootInv, Typed, Contents, Slow
    <3> QED BY <1>3, <3>1, WriteTyped DEF Begin, BootInv, Typed
  <2> QED BY <1>0, <1>1, <1>3, <2>1, <2>2 DEF Begin, BootInv, Typed, InStep
<1>4. CASE End \/ Break \/ Deliver
  <2>1. pc' \in 1 .. Len(script.steps)
    <3>1. Forward \/ Failed
      BY <1>4 DEF End, Break, Deliver
    <3> QED BY <1>2, <3>1, Targets DEF BootInv, Typed, Forward
  <2>2. busy' = FALSE /\ hits' \in 0 .. MaxHits
    BY <1>0, <1>4 DEF End, Break, Deliver, Hit, BootInv, Typed
  <2>3. Result \in Contents
    BY <1>1, <1>2, ResultIs DEF BootInv, Typed, Contents, Slow
  <2>4. files' \in [Files -> Contents]
    BY <1>4, <2>3, WriteTyped DEF End, Break, Deliver, BootInv, Typed, Contents
  <2> QED BY <1>0, <1>1, <2>1, <2>2, <2>4 DEF Typed, InStep
<1> QED
  BY <1>3, <1>4

\* The start, the life and the end of the node, and a kill.
LEMMA NodeTyped ==
  ASSUME BootInv, UNCHANGED scenario, Exec \/ Grow \/ Restart \/ Kill
  PROVE  Typed' /\ InStep'
<1>0. script' = script /\ MaxHits \in Nat
  BY KnownScenarios DEF script
<1>1. CASE Exec
  <2>1. pc' \in 1 .. Len(script.steps)
    BY <1>1, Targets DEF Exec, BootInv, Typed
  <2>2. busy = FALSE
    BY <1>1 DEF Exec, BootInv, InStep, Typed, Slow
  <2>3. running = FALSE /\ I.op = "run"
    BY <1>1 DEF Exec, BootInv, Typed
  <2>4. \/ running' = TRUE /\ I' = I
        \/ running' = FALSE
    BY <1>0, <1>1, <2>3 DEF Exec, I
  <2> QED BY <1>0, <1>1, <2>1, <2>2, <2>3, <2>4 DEF Exec, BootInv, Typed, InStep
<1>2. CASE Grow
  <2>1. files' \in [Files -> Contents] /\ I' = I
    BY <1>0, <1>2 DEF Grow, Grown, Write, BootInv, Typed, Contents, I
  <2> QED BY <1>0, <1>2, <2>1 DEF Grow, BootInv, Typed, InStep
<1>3. CASE Restart
  <2>1. pc' \in 1 .. Len(script.steps)
    BY <1>3, Targets DEF Restart, BootInv, Typed
  <2>2. busy = FALSE
    BY <1>3 DEF Restart, BootInv, InStep, Typed, Slow
  <2>3. hits' \in 0 .. MaxHits
    BY <1>0, <1>3 DEF Restart, Hit, BootInv, Typed
  <2>4. files' = files /\ busy' = FALSE /\ running' = FALSE
    BY <1>3, <2>2 DEF Restart
  <2> QED BY <1>0, <2>1, <2>3, <2>4 DEF BootInv, Typed, InStep
<1>4. CASE Kill
  <2>1. pc' \in 1 .. Len(script.steps)
    BY <1>4, Targets DEF Kill, BootInv, Typed
  <2>2. hits' \in 0 .. MaxHits
    BY <1>0, <1>4 DEF Kill, Hit, BootInv, Typed
  <2>3. files' = files /\ busy' = FALSE /\ running' = FALSE
    BY <1>4 DEF Kill, BootInv, Typed
  <2> QED BY <1>0, <2>1, <2>2, <2>3 DEF BootInv, Typed, InStep
<1> QED
  BY <1>1, <1>2, <1>3, <1>4

\* The inductive step.
LEMMA BootInvStep ==
  BootInv /\ [Step]_vars /\ UNCHANGED scenario => BootInv'
<1> SUFFICES ASSUME BootInv, [Step]_vars, UNCHANGED scenario
             PROVE  BootInv'
  OBVIOUS
<1>0. script' = script
  BY DEF script
<1>1. WellFormed(script)'
  BY <1>0 DEF BootInv
<1>2. CASE UNCHANGED vars
  BY <1>0, <1>2 DEF vars, BootInv, Typed, InStep, I
<1> QED
  BY <1>1, <1>2, TestTyped, QuickTyped, SlowTyped, NodeTyped
     DEF Step, Proceed, BootInv

\* A script begins at its first instruction.
LEMMA BootInvInit == Init => BootInv
<1> SUFFICES ASSUME Init PROVE BootInv
  OBVIOUS
<1>1. WellFormed(script)
  BY KnownScenarios, ScriptsWellFormed DEF Init, script
<1>2. pc \in 1 .. Len(script.steps)
  BY <1>1 DEF Init, WellFormed
<1>3. files \in [Files -> Contents]
  BY DEF Init, Contents
<1>4. hits \in 0 .. MaxHits
  BY KnownScenarios DEF Init
<1> QED
  BY <1>1, <1>2, <1>3, <1>4 DEF Init, BootInv, Typed, InStep

\* BootInv holds throughout.
LEMMA BootInvHolds == Spec => []BootInv
BY BootInvInit, BootInvStep, NextIsStep, PTL DEF Spec

\* The type invariant, with every script inside its own instructions and
\* nothing under way but an operation that takes time, whatever is killed.
THEOREM TypeCorrect == Spec => []TypeOK
<1>1. Init => scenario \in Scenarios
  BY DEF Init
<1>2. scenario \in Scenarios /\ UNCHANGED scenario => (scenario \in Scenarios)'
  OBVIOUS
<1>3. BootInv /\ scenario \in Scenarios => TypeOK
  BY DEF BootInv, Typed, InStep, TypeOK
<1> QED
  BY <1>1, <1>2, <1>3, BootInvHolds, NextIsStep, PTL DEF Spec
-----------------------------------------------------------------------------
(* The volume.                                                             *)

Ready(f) == files[f] \in {"good", "live"}

\* Only what the node writes to ever holds what it wrote.
NotLive(data) ==
  \A f \in Files \ data : files[f] \notin {"young", "overlay", "live"}

\* What the node may start on.
Complete ==
  /\ \A f \in script.needs \cup script.durable : Ready(f)
  /\ \A f \in script.optional :
       \/ files[f] \in {"none", "own", "good", "young", "live"}
       \/ files[f] = "overlay" /\ scenario.script \in Restoring

\* What no step does to the volume: lose what has arrived, or what was synced.
Kept ==
  /\ \A f \in script.durable : Ready(f) => Ready(f)'
  /\ \A f \in Files :
       /\ files[f] = "live" => files'[f] = "live"
       /\ files[f] = "young" /\ scenario.script \notin Judging =>
            files'[f] \in {"young", "live"}

\* An invariant of a script, before and after a step, and what it is for.
Safe(inv, invAfter) == /\ Init => inv
                       /\ inv /\ I.op = "run" => Complete
                       /\ inv /\ Step => invAfter /\ Kept

\* Where a test sends the script.
LEMMA TestOutcome ==
  ASSUME Test
  PROVE  /\ I.op \in Tests /\ files' = files
         /\ I.op = "exists" =>
              pc' = IF files[I.f] # "none" THEN pc + 1 + I.to ELSE pc + 1
         /\ I.op = "pinned" =>
              pc' = IF files[I.f] = "good" THEN pc + 1 + I.to ELSE pc + 1
         /\ I.op = "large" =>
              \/ pc' = pc + 1 + I.to /\ files[I.f] \notin {"none", "young"}
              \/ /\ pc' = pc + 1
                 /\ files[I.f] \in {"none", "part", "own", "young", "overlay"}
         /\ I.op = "maybe" => pc' \in {pc + 1, pc + 1 + I.to}
         /\ I.op = "skip" => pc' = pc + 1 + I.to
<1>1. CASE I.op = "exists"
  BY <1>1 DEF Test, Tests
<1>2. CASE I.op = "pinned"
  BY <1>2 DEF Test, Tests
<1>3. CASE I.op = "large"
  BY <1>3 DEF Test, Tests
<1>4. CASE I.op \in {"maybe", "skip"}
  BY <1>4 DEF Test, Tests
<1> QED
  BY <1>1, <1>2, <1>3, <1>4 DEF Test

\* The marker is set after the database is complete, and genesis is only used
\* after it was verified under another name.
blastInv ==
  /\ NotLive({"db"}) /\ files["db"] \notin {"young", "overlay"}
  /\ files["marker"] # "none" => Ready("db")
  /\ pc = 4 => files["part"] = "good"
  /\ pc = 5 => files["genesis"] = "good"
  /\ pc \in 6 .. 8 => Ready("db")

LEMMA BlastSafe ==
  ASSUME BootInv, script = blast, scenario.script = "blast"
  PROVE  Safe(blastInv, blastInv')
<1> DEFINE s == blast.steps
<1>0. /\ Len(s) = 8 /\ blast.main = 1
      /\ s[1] = Unless("marker", 6) /\ s[2] = Get("part", Exit)
      /\ s[3] = Verify("part") /\ s[4] = Move("part", "genesis")
      /\ s[5] = Found("db", "genesis", Exit) /\ s[6] = Remove("genesis")
      /\ s[7] = Touch("marker") /\ s[8] = Run
      /\ blast.needs = {"db"}
      /\ blast.durable = {"db"}
      /\ blast.optional = {} /\ blast.data = {"db"}
  BY DEF blast, Script, fetch
<1> HIDE DEF s
<1>1. pc \in 1 .. 8 /\ files \in [Files -> Contents] /\ I = s[pc]
  BY <1>0 DEF BootInv, Typed, I, s
<1> USE <1>0, <1>1 DEF Safe, Kept, Complete, NotLive, Ready, Judging,
       Restoring, Restarted, Failed, Forward, Write, Exit, NoFile,
       Instruction, Found, Get, Move, Remove, Run, Touch, Unless, Verify,
       blastInv
<1>2. Init => blastInv
  BY DEF Init, Files
<1>3. blastInv /\ I.op = "run" => Complete
  OBVIOUS
<1>4. ASSUME blastInv, Test PROVE blastInv' /\ Kept
  BY <1>4, TestOutcome DEF Tests
<1>5. ASSUME blastInv, Quick PROVE blastInv' /\ Kept
  BY <1>5 DEF Quick, Usable, Files
<1>6. ASSUME blastInv, Begin PROVE blastInv' /\ Kept
  BY <1>6, OpenedIs DEF Begin, Usable, Slow, Files
<1>7. ASSUME blastInv, End PROVE blastInv' /\ Kept
  BY <1>7, ResultIs DEF End, Usable, Slow, Files
<1>8. ASSUME blastInv, Exec \/ Restart \/ Kill PROVE blastInv' /\ Kept
  BY <1>8 DEF Exec, Restart, Kill, Killable, BootInv, InStep
<1>9. ASSUME blastInv, Grow PROVE blastInv' /\ Kept
  BY <1>9 DEF Grow, Grown, BootInv, InStep, Files
<1>10. ASSUME blastInv, Break \/ Deliver PROVE blastInv' /\ Kept
  BY <1>10 DEF Break, Deliver, Files
<1> QED
  BY <1>2, <1>3, <1>4, <1>5, <1>6, <1>7, <1>8, <1>9, <1>10 DEF Step, Proceed

\* The marker is set after the database is complete.
victionInv ==
  /\ NotLive({"db"}) /\ files["image"] = "good"
  /\ files["db"] \notin {"young", "overlay"}
  /\ files["marker"] # "none" => Ready("db")
  /\ pc \in 3 .. 4 => Ready("db")

LEMMA VictionSafe ==
  ASSUME BootInv, script = viction, scenario.script = "viction"
  PROVE  Safe(victionInv, victionInv')
<1> DEFINE s == viction.steps
<1>0. /\ Len(s) = 4 /\ viction.main = 1
      /\ s[1] = Unless("marker", 2) /\ s[2] = Found("db", "image", Exit)
      /\ s[3] = Touch("marker") /\ s[4] = Run
      /\ viction.needs = {"db"}
      /\ viction.durable = {"db"}
      /\ viction.optional = {} /\ viction.data = {"db"}
  BY DEF viction, Script
<1> HIDE DEF s
<1>1. pc \in 1 .. 4 /\ files \in [Files -> Contents] /\ I = s[pc]
  BY <1>0 DEF BootInv, Typed, I, s
<1> USE <1>0, <1>1 DEF Safe, Kept, Complete, NotLive, Ready, Judging,
       Restoring, Restarted, Failed, Forward, Write, Exit, NoFile,
       Instruction, Found, Run, Touch, Unless, victionInv
<1>2. Init => victionInv
  BY DEF Init, Files
<1>3. victionInv /\ I.op = "run" => Complete
  OBVIOUS
<1>4. ASSUME victionInv, Test PROVE victionInv' /\ Kept
  BY <1>4, TestOutcome DEF Tests
<1>5. ASSUME victionInv, Quick PROVE victionInv' /\ Kept
  BY <1>5 DEF Quick, Usable, Files
<1>6. ASSUME victionInv, Begin PROVE victionInv' /\ Kept
  BY <1>6, OpenedIs DEF Begin, Usable, Slow, Files
<1>7. ASSUME victionInv, End PROVE victionInv' /\ Kept
  BY <1>7, ResultIs DEF End, Usable, Slow, Files
<1>8. ASSUME victionInv, Exec \/ Restart \/ Kill PROVE victionInv' /\ Kept
  BY <1>8 DEF Exec, Restart, Kill, Killable, BootInv, InStep
<1>9. ASSUME victionInv, Grow PROVE victionInv' /\ Kept
  BY <1>9 DEF Grow, Grown, BootInv, InStep, Files
<1>10. ASSUME victionInv, Break \/ Deliver PROVE victionInv' /\ Kept
  BY <1>10 DEF Break, Deliver, Files
<1> QED
  BY <1>2, <1>3, <1>4, <1>5, <1>6, <1>7, <1>8, <1>9, <1>10 DEF Step, Proceed

\* A file appears under its name when it is complete and verified.
morphInv ==
  /\ NotLive({})
  /\ files["config"] \in {"none", "good"} /\ files["genesis"] \in {"none", "good"}
  /\ pc \in {4, 8} => files["part"] = "good"
  /\ pc \in 5 .. 9 => files["config"] = "good"
  /\ pc = 9 => files["genesis"] = "good"

LEMMA MorphSafe ==
  ASSUME BootInv, script = morph, scenario.script = "morph"
  PROVE  Safe(morphInv, morphInv')
<1> DEFINE s == morph.steps
<1>0. /\ Len(s) = 9 /\ morph.main = 1
      /\ s[1] = Unless("config", 3) /\ s[2] = Get("part", Exit)
      /\ s[3] = Verify("part") /\ s[4] = Move("part", "config")
      /\ s[5] = Unless("genesis", 3) /\ s[6] = Get("part", Exit)
      /\ s[7] = Verify("part") /\ s[8] = Move("part", "genesis")
      /\ s[9] = Run
      /\ morph.needs = {"config", "genesis"}
      /\ morph.durable = {"config", "genesis"}
      /\ morph.optional = {} /\ morph.data = {}
  BY DEF morph, Script, fetch
<1> HIDE DEF s
<1>1. pc \in 1 .. 9 /\ files \in [Files -> Contents] /\ I = s[pc]
  BY <1>0 DEF BootInv, Typed, I, s
<1> USE <1>0, <1>1 DEF Safe, Kept, Complete, NotLive, Ready, Judging,
       Restoring, Restarted, Failed, Forward, Write, Exit, NoFile,
       Instruction, Get, Move, Run, Unless, Verify, morphInv
<1>2. Init => morphInv
  BY DEF Init, Files
<1>3. morphInv /\ I.op = "run" => Complete
  OBVIOUS
<1>4. ASSUME morphInv, Test PROVE morphInv' /\ Kept
  BY <1>4, TestOutcome DEF Tests
<1>5. ASSUME morphInv, Quick PROVE morphInv' /\ Kept
  BY <1>5 DEF Quick, Usable, Files
<1>6. ASSUME morphInv, Begin PROVE morphInv' /\ Kept
  BY <1>6, OpenedIs DEF Begin, Usable, Slow, Files
<1>7. ASSUME morphInv, End PROVE morphInv' /\ Kept
  BY <1>7, ResultIs DEF End, Usable, Slow, Files
<1>8. ASSUME morphInv, Exec \/ Restart \/ Kill PROVE morphInv' /\ Kept
  BY <1>8 DEF Exec, Restart, Kill, Killable, BootInv, InStep
<1>9. ASSUME morphInv, Grow PROVE morphInv' /\ Kept
  BY <1>9 DEF Grow, Grown, BootInv, InStep, Files
<1>10. ASSUME morphInv, Break \/ Deliver PROVE morphInv' /\ Kept
  BY <1>10 DEF Break, Deliver, Files
<1> QED
  BY <1>2, <1>3, <1>4, <1>5, <1>6, <1>7, <1>8, <1>9, <1>10 DEF Step, Proceed

\* init writes a genesis of its own only while there is no key, and so before
\* the pinned genesis was ever there.
berachainInv ==
  /\ NotLive({}) /\ files["image"] = "good"
  /\ files["key"] = "none" \/ pc \in 2 .. 3 => files["genesis"] # "good"
  /\ pc \in 3 .. 16 => files["key"] # "none"
  /\ pc \in {7, 11} => files["part"] = "good"
  /\ pc \in 8 .. 16 => files["genesis"] = "good"
  /\ files["config"] \in {"none", "good"}
  /\ files["marker"] # "none" \/ pc \in 12 .. 16 => files["config"] = "good"
  /\ pc \in 14 .. 16 => files["app"] = "good"

LEMMA BerachainSafe ==
  ASSUME BootInv, script = berachain, scenario.script = "berachain"
  PROVE  Safe(berachainInv, berachainInv')
<1> DEFINE s == berachain.steps
<1>0. /\ Len(s) = 16 /\ berachain.main = 1
      /\ s[1] = Unless("key", 2) /\ s[2] = Found("key", "image", Exit)
      /\ s[3] = Generate("genesis") /\ s[4] = Pinned("genesis", 3)
      /\ s[5] = Get("part", Exit) /\ s[6] = Verify("part")
      /\ s[7] = Move("part", "genesis") /\ s[8] = Unless("marker", 4)
      /\ s[9] = Get("part", Exit) /\ s[10] = Verify("part")
      /\ s[11] = Move("part", "config") /\ s[12] = Touch("marker")
      /\ s[13] = Copy("app") /\ s[14] = Unless("jwt", 1)
      /\ s[15] = Found("jwt", "image", Exit) /\ s[16] = Run
      /\ berachain.needs = {"genesis", "config", "app"}
      /\ berachain.durable = {"genesis", "config"}
      /\ berachain.optional = {} /\ berachain.data = {}
  BY DEF berachain, Script, fetch
<1> HIDE DEF s
<1>1. pc \in 1 .. 16 /\ files \in [Files -> Contents] /\ I = s[pc]
  BY <1>0 DEF BootInv, Typed, I, s
<1> USE <1>0, <1>1 DEF Safe, Kept, Complete, NotLive, Ready, Judging,
       Restoring, Restarted, Failed, Forward, Write, Exit, NoFile,
       Instruction, Copy, Found, Generate, Get, Move, Pinned, Run, Touch,
       Unless, Verify, berachainInv
<1>2. Init => berachainInv
  BY DEF Init, Files
<1>3. berachainInv /\ I.op = "run" => Complete
  OBVIOUS
<1>4. ASSUME berachainInv, Test PROVE berachainInv' /\ Kept
  BY <1>4, TestOutcome DEF Tests
<1>5. ASSUME berachainInv, Quick PROVE berachainInv' /\ Kept
  BY <1>5 DEF Quick, Usable, Files
<1>6. ASSUME berachainInv, Begin PROVE berachainInv' /\ Kept
  BY <1>6, OpenedIs DEF Begin, Usable, Slow, Files
<1>7. ASSUME berachainInv, End PROVE berachainInv' /\ Kept
  BY <1>7, ResultIs DEF End, Usable, Slow, Files
<1>8. ASSUME berachainInv, Exec \/ Restart \/ Kill PROVE berachainInv' /\ Kept
  BY <1>8 DEF Exec, Restart, Kill, Killable, BootInv, InStep
<1>9. ASSUME berachainInv, Grow PROVE berachainInv' /\ Kept
  BY <1>9 DEF Grow, Grown, BootInv, InStep, Files
<1>10. ASSUME berachainInv, Break \/ Deliver PROVE berachainInv' /\ Kept
  BY <1>10 DEF Break, Deliver, Files
<1> QED
  BY <1>2, <1>3, <1>4, <1>5, <1>6, <1>7, <1>8, <1>9, <1>10 DEF Step, Proceed

\* The archive is extracted next to the place where the restore looks.
thundercoreInv ==
  /\ NotLive({"chain"})
  /\ files["chain"] \in {"none", "good", "live"}
  /\ pc \in 2 .. 5 => files["chain"] = "none"
  /\ pc \in {4, 5, 9, 13} => files["part"] = "good"
  /\ pc \in 6 .. 15 => Ready("chain")
  /\ pc \in 10 .. 15 => files["genesis"] = "good"
  /\ pc \in 14 .. 15 => files["config"] = "good"
  /\ pc = 15 => files["app"] = "good"

LEMMA ThundercoreSafe ==
  ASSUME BootInv, script = thundercore, scenario.script = "thundercore",
         faults \subseteq {"kill", "stop", "drop", "cut", "wrong"}
  PROVE  Safe(thundercoreInv, thundercoreInv')
<1> DEFINE s == thundercore.steps
<1>0. /\ Len(s) = 15 /\ thundercore.main = 6
      /\ s[1] = Unless("chain", 4) /\ s[2] = Remove("part")
      /\ s[3] = Stream("part", Exit) /\ s[4] = Remove("chain")
      /\ s[5] = Move("part", "chain") /\ s[6] = Pinned("genesis", 3)
      /\ s[7] = Get("part", Exit) /\ s[8] = Verify("part")
      /\ s[9] = Move("part", "genesis") /\ s[10] = Pinned("config", 3)
      /\ s[11] = Get("part", Exit) /\ s[12] = Verify("part")
      /\ s[13] = Move("part", "config") /\ s[14] = Copy("app") /\ s[15] = Run
      /\ thundercore.needs = {"chain", "genesis", "config", "app"}
      /\ thundercore.durable = {"chain", "genesis", "config"}
      /\ thundercore.optional = {} /\ thundercore.data = {"chain"}
  BY DEF thundercore, Script, fetch
<1> HIDE DEF s
<1>1. pc \in 1 .. 15 /\ files \in [Files -> Contents] /\ I = s[pc]
  BY <1>0 DEF BootInv, Typed, I, s
<1> USE <1>0, <1>1 DEF Safe, Kept, Complete, NotLive, Ready, Judging,
       Restoring, Restarted, Failed, Forward, Write, Exit, NoFile,
       Instruction, Copy, Get, Move, Pinned, Remove, Run, Stream, Unless,
       Verify, thundercoreInv
<1>2. Init => thundercoreInv
  BY DEF Init, Files
<1>3. thundercoreInv /\ I.op = "run" => Complete
  OBVIOUS
<1>4. ASSUME thundercoreInv, Test PROVE thundercoreInv' /\ Kept
  BY <1>4, TestOutcome DEF Tests
<1>5. ASSUME thundercoreInv, Quick PROVE thundercoreInv' /\ Kept
  BY <1>5 DEF Quick, Usable, Files
<1>6. ASSUME thundercoreInv, Begin PROVE thundercoreInv' /\ Kept
  BY <1>6, OpenedIs DEF Begin, Usable, Slow, Files
<1>7. ASSUME thundercoreInv, End PROVE thundercoreInv' /\ Kept
  BY <1>7, ResultIs DEF End, Usable, Slow, Files
<1>8. ASSUME thundercoreInv, Exec \/ Restart \/ Kill PROVE thundercoreInv' /\ Kept
  BY <1>8 DEF Exec, Restart, Kill, Killable, BootInv, InStep
<1>9. ASSUME thundercoreInv, Grow PROVE thundercoreInv' /\ Kept
  BY <1>9 DEF Grow, Grown, BootInv, InStep, Files
<1>10. ASSUME thundercoreInv, Break \/ Deliver PROVE thundercoreInv' /\ Kept
  BY <1>10 DEF Break, Deliver, Files
<1> QED
  BY <1>2, <1>3, <1>4, <1>5, <1>6, <1>7, <1>8, <1>9, <1>10 DEF Step, Proceed

\* Without a kill, the genesis that init writes is removed before the next
\* start can look for one.
cosmosNodeInv ==
  /\ NotLive({}) /\ files["image"] = "good"
  /\ pc \notin 6 .. 7 => files["genesis"] \in {"none", "good"}
  /\ pc \in 4 .. 13 => files["genesis"] # "good"
  /\ files["genesis"] = "good" \/ pc \in 5 .. 15
       => files["app"] \in {"own", "good"}
  /\ pc \in 6 .. 8 => files["config"] \in {"own", "good"}
  /\ files["genesis"] = "good" \/ pc \in 9 .. 15 => files["config"] = "good"
  /\ pc = 11 => files["dl"] = "good"
  /\ pc \in 12 .. 13 => files["part"] = "good"
  /\ pc \in 14 .. 15 => files["genesis"] = "good"
  /\ pc = 15 => files["app"] = "good"

LEMMA CosmosSafe ==
  ASSUME BootInv, script = cosmosNode, scenario.script = "cosmos",
         faults \subseteq {"stop", "drop", "wrong"}
  PROVE  Safe(cosmosNodeInv, cosmosNodeInv')
<1> DEFINE s == cosmosNode.steps
<1>0. /\ Len(s) = 15 /\ cosmosNode.main = 3
      /\ s[1] = Remove("toolbox") /\ s[2] = Unpack("toolbox", "image", Exit)
      /\ s[3] = Unless("genesis", 10) /\ s[4] = Generate("app")
      /\ s[5] = Generate("config") /\ s[6] = Generate("genesis")
      /\ s[7] = Remove("genesis") /\ s[8] = Edit("config", Exit)
      /\ s[9] = Get("dl", Exit) /\ s[10] = Verify("dl")
      /\ s[11] = Unpack("part", "dl", Exit) /\ s[12] = Remove("dl")
      /\ s[13] = Move("part", "genesis") /\ s[14] = Edit("app", Exit)
      /\ s[15] = Run
      /\ cosmosNode.needs = {"genesis", "config", "app"}
      /\ cosmosNode.durable = {"genesis"}
      /\ cosmosNode.optional = {} /\ cosmosNode.data = {}
  BY DEF cosmosNode, Script
<1> HIDE DEF s
<1>1. pc \in 1 .. 15 /\ files \in [Files -> Contents] /\ I = s[pc]
  BY <1>0 DEF BootInv, Typed, I, s
<1> USE <1>0, <1>1 DEF Safe, Kept, Complete, NotLive, Ready, Judging,
       Restoring, Restarted, Failed, Forward, Write, Exit, NoFile,
       Instruction, Edit, Generate, Get, Move, Remove, Run, Unless, Unpack,
       Verify, cosmosNodeInv
<1>2. Init => cosmosNodeInv
  BY DEF Init, Files
<1>3. cosmosNodeInv /\ I.op = "run" => Complete
  OBVIOUS
<1>4. ASSUME cosmosNodeInv, Test PROVE cosmosNodeInv' /\ Kept
  BY <1>4, TestOutcome DEF Tests
<1>5. ASSUME cosmosNodeInv, Quick PROVE cosmosNodeInv' /\ Kept
  BY <1>5 DEF Quick, Usable, Files
<1>6. ASSUME cosmosNodeInv, Begin PROVE cosmosNodeInv' /\ Kept
  BY <1>6, OpenedIs DEF Begin, Usable, Slow, Files
<1>7. ASSUME cosmosNodeInv, End PROVE cosmosNodeInv' /\ Kept
  BY <1>7, ResultIs DEF End, Usable, Slow, Files
<1>8. ASSUME cosmosNodeInv, Exec \/ Restart \/ Kill PROVE cosmosNodeInv' /\ Kept
  BY <1>8 DEF Exec, Restart, Kill, Killable, BootInv, InStep
<1>9. ASSUME cosmosNodeInv, Grow PROVE cosmosNodeInv' /\ Kept
  BY <1>9 DEF Grow, Grown, BootInv, InStep, Files
<1>10. ASSUME cosmosNodeInv, Break \/ Deliver PROVE cosmosNodeInv' /\ Kept
  BY <1>10 DEF Break, Deliver, Files
<1> QED
  BY <1>2, <1>3, <1>4, <1>5, <1>6, <1>7, <1>8, <1>9, <1>10 DEF Step, Proceed

\* Without a fault, a database that is there is complete.
immutableInv ==
  /\ NotLive({"db"})
  /\ pc = 1 => files["db"] \in {"none", "good", "live"}
  /\ pc = 2 => files["db"] \in {"none", "part"}
  /\ pc = 3 => Ready("db")

LEMMA ImmutableSafe ==
  ASSUME BootInv, script = immutable, scenario.script = "immutable",
         faults \subseteq {}
  PROVE  Safe(immutableInv, immutableInv')
<1> DEFINE s == immutable.steps
<1>0. /\ Len(s) = 3 /\ immutable.main = 1
      /\ s[1] = Unless("db", 1) /\ s[2] = Stream("db", 0) /\ s[3] = Run
      /\ immutable.needs = {"db"}
      /\ immutable.durable = {"db"}
      /\ immutable.optional = {} /\ immutable.data = {"db"}
  BY DEF immutable, Script
<1> HIDE DEF s
<1>1. pc \in 1 .. 3 /\ files \in [Files -> Contents] /\ I = s[pc]
  BY <1>0 DEF BootInv, Typed, I, s
<1> USE <1>0, <1>1 DEF Safe, Kept, Complete, NotLive, Ready, Judging,
       Restoring, Restarted, Failed, Forward, Write, Exit, NoFile,
       Instruction, Run, Stream, Unless, immutableInv
<1>2. Init => immutableInv
  BY DEF Init, Files
<1>3. immutableInv /\ I.op = "run" => Complete
  OBVIOUS
<1>4. ASSUME immutableInv, Test PROVE immutableInv' /\ Kept
  BY <1>4, TestOutcome DEF Tests
<1>5. ASSUME immutableInv, Quick PROVE immutableInv' /\ Kept
  BY <1>5 DEF Quick, Usable, Files
<1>6. ASSUME immutableInv, Begin PROVE immutableInv' /\ Kept
  BY <1>6, OpenedIs DEF Begin, Usable, Slow, Files
<1>7. ASSUME immutableInv, End PROVE immutableInv' /\ Kept
  BY <1>7, ResultIs DEF End, Usable, Slow, Files
<1>8. ASSUME immutableInv, Exec \/ Restart \/ Kill PROVE immutableInv' /\ Kept
  BY <1>8 DEF Exec, Restart, Kill, Killable, BootInv, InStep
<1>9. ASSUME immutableInv, Grow PROVE immutableInv' /\ Kept
  BY <1>9 DEF Grow, Grown, BootInv, InStep, Files
<1>10. ASSUME immutableInv, Break \/ Deliver PROVE immutableInv' /\ Kept
  BY <1>10 DEF Break, Deliver, Files
<1> QED
  BY <1>2, <1>3, <1>4, <1>5, <1>6, <1>7, <1>8, <1>9, <1>10 DEF Step, Proceed

\* Without a fault, a file that is there is complete.
aptosInv ==
  /\ NotLive({})
  /\ files["genesis"] \in {"none", IF pc = 2 THEN "part" ELSE "good"}
  /\ files["config"] \in {"none", IF pc = 4 THEN "part" ELSE "good"}
  /\ pc \in 3 .. 5 => files["genesis"] = "good"
  /\ pc = 5 => files["config"] = "good"

LEMMA AptosSafe ==
  ASSUME BootInv, script = aptos, scenario.script = "aptos",
         faults \subseteq {}
  PROVE  Safe(aptosInv, aptosInv')
<1> DEFINE s == aptos.steps
<1>0. /\ Len(s) = 5 /\ aptos.main = 1
      /\ s[1] = Unless("genesis", 1) /\ s[2] = Get("genesis", 0)
      /\ s[3] = Unless("config", 1) /\ s[4] = Get("config", 0) /\ s[5] = Run
      /\ aptos.needs = {"genesis", "config"}
      /\ aptos.durable = {"genesis", "config"}
      /\ aptos.optional = {} /\ aptos.data = {}
  BY DEF aptos, Script
<1> HIDE DEF s
<1>1. pc \in 1 .. 5 /\ files \in [Files -> Contents] /\ I = s[pc]
  BY <1>0 DEF BootInv, Typed, I, s
<1> USE <1>0, <1>1 DEF Safe, Kept, Complete, NotLive, Ready, Judging,
       Restoring, Restarted, Failed, Forward, Write, Exit, NoFile,
       Instruction, Get, Run, Unless, aptosInv
<1>2. Init => aptosInv
  BY DEF Init, Files
<1>3. aptosInv /\ I.op = "run" => Complete
  OBVIOUS
<1>4. ASSUME aptosInv, Test PROVE aptosInv' /\ Kept
  BY <1>4, TestOutcome DEF Tests
<1>5. ASSUME aptosInv, Quick PROVE aptosInv' /\ Kept
  BY <1>5 DEF Quick, Usable, Files
<1>6. ASSUME aptosInv, Begin PROVE aptosInv' /\ Kept
  BY <1>6, OpenedIs DEF Begin, Usable, Slow, Files
<1>7. ASSUME aptosInv, End PROVE aptosInv' /\ Kept
  BY <1>7, ResultIs DEF End, Usable, Slow, Files
<1>8. ASSUME aptosInv, Exec \/ Restart \/ Kill PROVE aptosInv' /\ Kept
  BY <1>8 DEF Exec, Restart, Kill, Killable, BootInv, InStep
<1>9. ASSUME aptosInv, Grow PROVE aptosInv' /\ Kept
  BY <1>9 DEF Grow, Grown, BootInv, InStep, Files
<1>10. ASSUME aptosInv, Break \/ Deliver PROVE aptosInv' /\ Kept
  BY <1>10 DEF Break, Deliver, Files
<1> QED
  BY <1>2, <1>3, <1>4, <1>5, <1>6, <1>7, <1>8, <1>9, <1>10 DEF Step, Proceed

\* Without a fault, the formal snapshot fails before it writes or succeeds.
suiInv ==
  /\ NotLive({"db"})
  /\ pc \in {1, 9, 10, 11} => files["db"] \in {"none", "good", "young", "live"}
  /\ pc = 2 => files["db"] \in {"none", "young"}
  /\ pc = 3 => files["db"] = "none"
  /\ pc \in 4 .. 7 => files["db"] = "young"
  /\ pc = 8 => \/ files["db"] = "none"
               \/ files["db"] = "part" /\ files["genesis"] = "good"
  /\ files["genesis"] \in {"none", IF pc = 10 THEN "part" ELSE "good"}
  /\ pc = 11 => files["genesis"] = "good"

LEMMA SuiSafe ==
  ASSUME BootInv, script = sui, scenario.script = "sui",
         faults \subseteq {}
  PROVE  Safe(suiInv, suiInv')
<1> DEFINE s == sui.steps
<1>0. /\ Len(s) = 11 /\ sui.main = 9
      /\ s[1] = Large("db", 7) /\ s[2] = Unless("db", 1) /\ s[3] = Skip(4)
      /\ s[4] = Maybe(2) /\ s[5] = Found("db", "genesis", 1)
      /\ s[6] = Skip(2) /\ s[7] = Remove("db")
      /\ s[8] = Found("db", "genesis", 0) /\ s[9] = Unless("genesis", 1)
      /\ s[10] = Get("genesis", 0) /\ s[11] = Run
      /\ sui.needs = {"genesis"}
      /\ sui.durable = {"genesis"}
      /\ sui.optional = {"db"} /\ sui.data = {"db"}
  BY DEF sui, Script
<1> HIDE DEF s
<1>1. pc \in 1 .. 11 /\ files \in [Files -> Contents] /\ I = s[pc]
  BY <1>0 DEF BootInv, Typed, I, s
<1> USE <1>0, <1>1 DEF Safe, Kept, Complete, NotLive, Ready, Judging,
       Restoring, Restarted, Failed, Forward, Write, Exit, NoFile,
       Instruction, Found, Get, Large, Maybe, Remove, Run, Skip, Unless,
       suiInv
<1>2. Init => suiInv
  BY DEF Init, Files
<1>3. suiInv /\ I.op = "run" => Complete
  OBVIOUS
<1>4. ASSUME suiInv, Test PROVE suiInv' /\ Kept
  BY <1>4, TestOutcome DEF Tests
<1>5. ASSUME suiInv, Quick PROVE suiInv' /\ Kept
  BY <1>5 DEF Quick, Usable, Files
<1>6. ASSUME suiInv, Begin PROVE suiInv' /\ Kept
  BY <1>6, OpenedIs DEF Begin, Usable, Slow, Files
<1>7. ASSUME suiInv, End PROVE suiInv' /\ Kept
  BY <1>7, ResultIs DEF End, Usable, Slow, Files
<1>8. ASSUME suiInv, Exec \/ Restart \/ Kill PROVE suiInv' /\ Kept
  BY <1>8 DEF Exec, Restart, Kill, Killable, BootInv, InStep
<1>9. ASSUME suiInv, Grow PROVE suiInv' /\ Kept
  BY <1>9 DEF Grow, Grown, BootInv, InStep, Files
<1>10. ASSUME suiInv, Break \/ Deliver PROVE suiInv' /\ Kept
  BY <1>10 DEF Break, Deliver, Files
<1> QED
  BY <1>2, <1>3, <1>4, <1>5, <1>6, <1>7, <1>8, <1>9, <1>10 DEF Step, Proceed

\* Without a fault, the two files come together.
nearInv ==
  /\ NotLive({})
  /\ pc = 1 => \/ files["genesis"] = "none" /\ files["config"] = "none"
               \/ files["genesis"] = "good" /\ files["config"] = "good"
  /\ pc = 2 => files["genesis"] = "none" /\ files["config"] = "none"
  /\ pc \in {3, 6, 7} => files["genesis"] = "good" /\ files["config"] = "good"
  /\ pc = 4 => files["genesis"] \in {"none", "part"} /\ files["config"] = "none"
  /\ pc = 5 => files["genesis"] = "good" /\ files["config"] \in {"none", "part"}

LEMMA NearSafe ==
  ASSUME BootInv, script = near, scenario.script = "near",
         faults \subseteq {}
  PROVE  Safe(nearInv, nearInv')
<1> DEFINE s == near.steps
<1>0. /\ Len(s) = 7 /\ near.main = 1
      /\ s[1] = Unless("genesis", 1) /\ s[2] = Skip(1)
      /\ s[3] = Unless("config", 2) /\ s[4] = Get("genesis", 0)
      /\ s[5] = Get("config", 0) /\ s[6] = Edit("config", 0) /\ s[7] = Run
      /\ near.needs = {"genesis", "config"}
      /\ near.durable = {"genesis", "config"}
      /\ near.optional = {} /\ near.data = {}
  BY DEF near, Script
<1> HIDE DEF s
<1>1. pc \in 1 .. 7 /\ files \in [Files -> Contents] /\ I = s[pc]
  BY <1>0 DEF BootInv, Typed, I, s
<1> USE <1>0, <1>1 DEF Safe, Kept, Complete, NotLive, Ready, Judging,
       Restoring, Restarted, Failed, Forward, Write, Exit, NoFile,
       Instruction, Edit, Get, Run, Skip, Unless, nearInv
<1>2. Init => nearInv
  BY DEF Init, Files
<1>3. nearInv /\ I.op = "run" => Complete
  OBVIOUS
<1>4. ASSUME nearInv, Test PROVE nearInv' /\ Kept
  BY <1>4, TestOutcome DEF Tests
<1>5. ASSUME nearInv, Quick PROVE nearInv' /\ Kept
  BY <1>5 DEF Quick, Usable, Files
<1>6. ASSUME nearInv, Begin PROVE nearInv' /\ Kept
  BY <1>6, OpenedIs DEF Begin, Usable, Slow, Files
<1>7. ASSUME nearInv, End PROVE nearInv' /\ Kept
  BY <1>7, ResultIs DEF End, Usable, Slow, Files
<1>8. ASSUME nearInv, Exec \/ Restart \/ Kill PROVE nearInv' /\ Kept
  BY <1>8 DEF Exec, Restart, Kill, Killable, BootInv, InStep
<1>9. ASSUME nearInv, Grow PROVE nearInv' /\ Kept
  BY <1>9 DEF Grow, Grown, BootInv, InStep, Files
<1>10. ASSUME nearInv, Break \/ Deliver PROVE nearInv' /\ Kept
  BY <1>10 DEF Break, Deliver, Files
<1> QED
  BY <1>2, <1>3, <1>4, <1>5, <1>6, <1>7, <1>8, <1>9, <1>10 DEF Step, Proceed

\* Before the marker is set the genesis is removed at every start, and a
\* download that breaks off or is killed with its container goes with it.
cardanoInv ==
  /\ NotLive({})
  /\ pc \in {2, 3, 5, 6, 7, 8, 10, 11, 12, 13} => files["marker"] = "none"
  /\ files["marker"] = "none" /\ pc \in 1 .. 3
       => files["genesis"] \in {"none", "part"}
  /\ files["marker"] = "none" /\ pc \in 4 .. 9 => files["genesis"] = "none"
  /\ files["marker"] # "none" => files["genesis"] = "good"
  /\ files["marker"] # "none" /\ pc # 15 => files["config"] = "good"
  /\ pc = 4 => files["config"] \in {"none", "good"}
  /\ pc = 5 => files["config"] \in {"none", "part"}
  /\ pc \in {6, 9, 10, 11, 12, 13, 14, 16, 17, 18} => files["config"] = "good"
  /\ pc \in {3, 8} => files["config"] = "none"
  /\ pc \in {10, 12} => files["genesis"] \in {"none", "part"}
  /\ pc = 13 => files["genesis"] = "none"
  /\ pc \in {11} \cup 14 .. 18 => files["genesis"] = "good"
  /\ pc = 15 => files["tmp"] = "good"
  /\ pc \in 17 .. 18 => files["topology"] = "good"
  /\ pc = 18 => files["marker"] # "none"

LEMMA CardanoSafe ==
  ASSUME BootInv, script = cardano, scenario.script = "cardano",
         faults \subseteq {"stop", "drop"}
  PROVE  Safe(cardanoInv, cardanoInv')
<1> DEFINE s == cardano.steps
<1>0. /\ Len(s) = 18 /\ cardano.main = 1
      /\ s[1] = Unless("marker", 2) /\ s[2] = Remove("config")
      /\ s[3] = Remove("genesis") /\ s[4] = Unless("config", 4)
      /\ s[5] = Get("config", 1) /\ s[6] = Skip(2) /\ s[7] = Remove("config")
      /\ s[8] = Fail /\ s[9] = Unless("genesis", 4)
      /\ s[10] = Get("genesis", 1) /\ s[11] = Skip(2)
      /\ s[12] = Remove("genesis") /\ s[13] = Fail
      /\ s[14] = Read("config", "tmp") /\ s[15] = Put("config", "tmp")
      /\ s[16] = Copy("topology") /\ s[17] = Touch("marker") /\ s[18] = Run
      /\ cardano.needs = {"config", "genesis", "topology"}
      /\ cardano.durable = {"genesis"}
      /\ cardano.optional = {} /\ cardano.data = {}
  BY DEF cardano, Script
<1> HIDE DEF s
<1>1. pc \in 1 .. 18 /\ files \in [Files -> Contents] /\ I = s[pc]
  BY <1>0 DEF BootInv, Typed, I, s
<1> USE <1>0, <1>1 DEF Safe, Kept, Complete, NotLive, Ready, Judging,
       Restoring, Restarted, Failed, Forward, Write, Exit, NoFile,
       Instruction, Copy, Fail, Get, Put, Read, Remove, Run, Skip, Touch,
       Unless, cardanoInv
<1>2. Init => cardanoInv
  BY DEF Init, Files
<1>3. cardanoInv /\ I.op = "run" => Complete
  OBVIOUS
<1>4. ASSUME cardanoInv, Test PROVE cardanoInv' /\ Kept
  BY <1>4, TestOutcome DEF Tests
<1>5. ASSUME cardanoInv, Quick PROVE cardanoInv' /\ Kept
  BY <1>5 DEF Quick, Usable, Files
<1>6. ASSUME cardanoInv, Begin PROVE cardanoInv' /\ Kept
  BY <1>6, OpenedIs DEF Begin, Usable, Slow, Files
<1>7. ASSUME cardanoInv, End PROVE cardanoInv' /\ Kept
  BY <1>7, ResultIs DEF End, Usable, Slow, Files
<1>8. ASSUME cardanoInv, Exec \/ Restart \/ Kill PROVE cardanoInv' /\ Kept
  BY <1>8 DEF Exec, Restart, Kill, Killable, BootInv, InStep
<1>9. ASSUME cardanoInv, Grow PROVE cardanoInv' /\ Kept
  BY <1>9 DEF Grow, Grown, BootInv, InStep, Files
<1>10. ASSUME cardanoInv, Break \/ Deliver PROVE cardanoInv' /\ Kept
  BY <1>10 DEF Break, Deliver, Files
<1> QED
  BY <1>2, <1>3, <1>4, <1>5, <1>6, <1>7, <1>8, <1>9, <1>10 DEF Step, Proceed

\* Without a fault, a database is whole, and a large one is left alone.
stellarInv ==
  /\ NotLive({"db"})
  /\ pc \in {1, 4} => files["db"] \in {"none", "own", "good", "young", "live"}
  /\ pc \in 2 .. 3 => files["db"] \notin {"overlay", "live"}

LEMMA StellarSafe ==
  ASSUME BootInv, script = stellar, scenario.script = "stellar",
         faults \subseteq {}
  PROVE  Safe(stellarInv, stellarInv')
<1> DEFINE s == stellar.steps
<1>0. /\ Len(s) = 4 /\ stellar.main = 1
      /\ s[1] = Large("db", 2) /\ s[2] = Remove("db")
      /\ s[3] = Generate("db") /\ s[4] = Run
      /\ stellar.needs = {}
      /\ stellar.durable = {}
      /\ stellar.optional = {"db"} /\ stellar.data = {"db"}
  BY DEF stellar, Script
<1> HIDE DEF s
<1>1. pc \in 1 .. 4 /\ files \in [Files -> Contents] /\ I = s[pc]
  BY <1>0 DEF BootInv, Typed, I, s
<1> USE <1>0, <1>1 DEF Safe, Kept, Complete, NotLive, Ready, Judging,
       Restoring, Restarted, Failed, Forward, Write, Exit, NoFile,
       Instruction, Generate, Large, Remove, Run, stellarInv
<1>2. Init => stellarInv
  BY DEF Init, Files
<1>3. stellarInv /\ I.op = "run" => Complete
  OBVIOUS
<1>4. ASSUME stellarInv, Test PROVE stellarInv' /\ Kept
  BY <1>4, TestOutcome DEF Tests
<1>5. ASSUME stellarInv, Quick PROVE stellarInv' /\ Kept
  BY <1>5 DEF Quick, Usable, Files
<1>6. ASSUME stellarInv, Begin PROVE stellarInv' /\ Kept
  BY <1>6, OpenedIs DEF Begin, Usable, Slow, Files
<1>7. ASSUME stellarInv, End PROVE stellarInv' /\ Kept
  BY <1>7, ResultIs DEF End, Usable, Slow, Files
<1>8. ASSUME stellarInv, Exec \/ Restart \/ Kill PROVE stellarInv' /\ Kept
  BY <1>8 DEF Exec, Restart, Kill, Killable, BootInv, InStep
<1>9. ASSUME stellarInv, Grow PROVE stellarInv' /\ Kept
  BY <1>9 DEF Grow, Grown, BootInv, InStep, Files
<1>10. ASSUME stellarInv, Break \/ Deliver PROVE stellarInv' /\ Kept
  BY <1>10 DEF Break, Deliver, Files
<1> QED
  BY <1>2, <1>3, <1>4, <1>5, <1>6, <1>7, <1>8, <1>9, <1>10 DEF Step, Proceed

\* Without a fault, the dump is complete when it is unpacked.
tonInv ==
  /\ NotLive({"db"})
  /\ pc \notin 7 .. 13 => files["db"] \in {"none", "good", "young", "live"}
  /\ pc = 7 => files["db"] \in {"none", "young"}
  /\ pc \in 8 .. 11 => files["db"] = "none"
  /\ pc = 12 => files["db"] \in {"none", "part"} /\ files["dump"] = "good"
  /\ pc = 13 => files["db"] = "good"
  /\ files["dump"] \in {"none", IF pc = 9 THEN "part" ELSE "good"}

LEMMA TonSafe ==
  ASSUME BootInv, script = ton, scenario.script = "ton",
         faults \subseteq {}
  PROVE  Safe(tonInv, tonInv')
<1> DEFINE s == ton.steps
<1>0. /\ Len(s) = 15 /\ ton.main = 1
      /\ s[1] = Unless("marker", 1) /\ s[2] = Skip(2)
      /\ s[3] = Large("db", 1) /\ s[4] = Remove("marker")
      /\ s[5] = Unless("marker", 9) /\ s[6] = Large("db", 7)
      /\ s[7] = Remove("db") /\ s[8] = Large("dump", 1)
      /\ s[9] = Get("dump", 0) /\ s[10] = Unless("dump", 1)
      /\ s[11] = Skip(3) /\ s[12] = Unpack("db", "dump", 2)
      /\ s[13] = Remove("dump") /\ s[14] = Touch("marker") /\ s[15] = Run
      /\ ton.needs = {}
      /\ ton.durable = {}
      /\ ton.optional = {"db"} /\ ton.data = {"db"}
  BY DEF ton, Script
<1> HIDE DEF s
<1>1. pc \in 1 .. 15 /\ files \in [Files -> Contents] /\ I = s[pc]
  BY <1>0 DEF BootInv, Typed, I, s
<1> USE <1>0, <1>1 DEF Safe, Kept, Complete, NotLive, Ready, Judging,
       Restoring, Restarted, Failed, Forward, Write, Exit, NoFile,
       Instruction, Get, Large, Remove, Run, Skip, Touch, Unless, Unpack,
       tonInv
<1>2. Init => tonInv
  BY DEF Init, Files
<1>3. tonInv /\ I.op = "run" => Complete
  OBVIOUS
<1>4. ASSUME tonInv, Test PROVE tonInv' /\ Kept
  BY <1>4, TestOutcome DEF Tests
<1>5. ASSUME tonInv, Quick PROVE tonInv' /\ Kept
  BY <1>5 DEF Quick, Usable, Files
<1>6. ASSUME tonInv, Begin PROVE tonInv' /\ Kept
  BY <1>6, OpenedIs DEF Begin, Usable, Slow, Files
<1>7. ASSUME tonInv, End PROVE tonInv' /\ Kept
  BY <1>7, ResultIs DEF End, Usable, Slow, Files
<1>8. ASSUME tonInv, Exec \/ Restart \/ Kill PROVE tonInv' /\ Kept
  BY <1>8 DEF Exec, Restart, Kill, Killable, BootInv, InStep
<1>9. ASSUME tonInv, Grow PROVE tonInv' /\ Kept
  BY <1>9 DEF Grow, Grown, BootInv, InStep, Files
<1>10. ASSUME tonInv, Break \/ Deliver PROVE tonInv' /\ Kept
  BY <1>10 DEF Break, Deliver, Files
<1> QED
  BY <1>2, <1>3, <1>4, <1>5, <1>6, <1>7, <1>8, <1>9, <1>10 DEF Step, Proceed

\* An archive that broke off is not unpacked; the stream follows.
snapshotInv ==
  /\ NotLive({"db"})
  /\ pc \in {1, 9} =>
       files["db"] \in {"none", "good", "young", "overlay", "live"}
  /\ pc \in {2, 3, 7} => files["db"] \in {"none", "young", "overlay"}
  /\ pc \in {4, 8} => files["db"] \in {"none", "part", "young", "overlay"}
  /\ pc = 4 => files["tmp"] = "good"
  /\ pc \in 5 .. 6 => files["db"] \in {"good", "overlay"}

LEMMA SnapshotSafe ==
  ASSUME BootInv, script = snapshot, scenario.script = "snapshot",
         faults \subseteq {"stop", "drop"}
  PROVE  Safe(snapshotInv, snapshotInv')
<1> DEFINE s == snapshot.steps
<1>0. /\ Len(s) = 9 /\ snapshot.main = 9
      /\ s[1] = Large("db", 7) /\ s[2] = Maybe(4) /\ s[3] = Get("tmp", 3)
      /\ s[4] = Unpack("db", "tmp", 2) /\ s[5] = Remove("tmp")
      /\ s[6] = Skip(2) /\ s[7] = Maybe(1) /\ s[8] = Stream("db", 0)
      /\ s[9] = Run
      /\ snapshot.needs = {}
      /\ snapshot.durable = {}
      /\ snapshot.optional = {"db"} /\ snapshot.data = {"db"}
  BY DEF snapshot, Script
<1> HIDE DEF s
<1>1. pc \in 1 .. 9 /\ files \in [Files -> Contents] /\ I = s[pc]
  BY <1>0 DEF BootInv, Typed, I, s
<1> USE <1>0, <1>1 DEF Safe, Kept, Complete, NotLive, Ready, Judging,
       Restoring, Restarted, Failed, Forward, Write, Exit, NoFile,
       Instruction, Get, Large, Maybe, Remove, Run, Skip, Stream, Unpack,
       snapshotInv
<1>2. Init => snapshotInv
  BY DEF Init, Files
<1>3. snapshotInv /\ I.op = "run" => Complete
  OBVIOUS
<1>4. ASSUME snapshotInv, Test PROVE snapshotInv' /\ Kept
  BY <1>4, TestOutcome DEF Tests
<1>5. ASSUME snapshotInv, Quick PROVE snapshotInv' /\ Kept
  BY <1>5 DEF Quick, Usable, Files
<1>6. ASSUME snapshotInv, Begin PROVE snapshotInv' /\ Kept
  BY <1>6, OpenedIs DEF Begin, Usable, Slow, Files
<1>7. ASSUME snapshotInv, End PROVE snapshotInv' /\ Kept
  BY <1>7, ResultIs DEF End, Usable, Slow, Files
<1>8. ASSUME snapshotInv, Exec \/ Restart \/ Kill PROVE snapshotInv' /\ Kept
  BY <1>8 DEF Exec, Restart, Kill, Killable, BootInv, InStep
<1>9. ASSUME snapshotInv, Grow PROVE snapshotInv' /\ Kept
  BY <1>9 DEF Grow, Grown, BootInv, InStep, Files
<1>10. ASSUME snapshotInv, Break \/ Deliver PROVE snapshotInv' /\ Kept
  BY <1>10 DEF Break, Deliver, Files
<1> QED
  BY <1>2, <1>3, <1>4, <1>5, <1>6, <1>7, <1>8, <1>9, <1>10 DEF Step, Proceed

\* The same for both databases; what is there is left alone.
snapshotPolygonInv ==
  /\ NotLive({"bor", "heimdall"})
  /\ pc \in {4, 9} => files["tmp"] = "good"
  /\ pc \in {2, 3, 12} => files["bor"] = "none"
  /\ pc \in {4, 13} => files["bor"] \in {"none", "part"}
  /\ pc \notin {4, 13} => files["bor"] \in {"none", "good", "young", "live"}
  /\ pc \in {7, 8, 15} => files["heimdall"] = "none"
  /\ pc \in {9, 16} => files["heimdall"] \in {"none", "part"}
  /\ pc \notin {9, 16} =>
       files["heimdall"] \in {"none", "good", "young", "live"}

LEMMA PolygonSafe ==
  ASSUME BootInv, script = snapshotPolygon, scenario.script = "polygon",
         faults \subseteq {"stop", "drop"}
  PROVE  Safe(snapshotPolygonInv, snapshotPolygonInv')
<1> DEFINE s == snapshotPolygon.steps
<1>0. /\ Len(s) = 17 /\ snapshotPolygon.main = 17
      /\ s[1] = Unless("bor", 4) /\ s[2] = Maybe(3) /\ s[3] = Get("tmp", 8)
      /\ s[4] = Unpack("bor", "tmp", 7) /\ s[5] = Remove("tmp")
      /\ s[6] = Unless("heimdall", 4) /\ s[7] = Maybe(3)
      /\ s[8] = Get("tmp", 2) /\ s[9] = Unpack("heimdall", "tmp", 1)
      /\ s[10] = Remove("tmp") /\ s[11] = Unless("bor", 2)
      /\ s[12] = Maybe(1) /\ s[13] = Stream("bor", 0)
      /\ s[14] = Unless("heimdall", 2) /\ s[15] = Maybe(1)
      /\ s[16] = Stream("heimdall", 0) /\ s[17] = Run
      /\ snapshotPolygon.needs = {}
      /\ snapshotPolygon.durable = {}
      /\ snapshotPolygon.optional = {"bor", "heimdall"} /\ snapshotPolygon.data = {"bor", "heimdall"}
  BY DEF snapshotPolygon, Script
<1> HIDE DEF s
<1>1. pc \in 1 .. 17 /\ files \in [Files -> Contents] /\ I = s[pc]
  BY <1>0 DEF BootInv, Typed, I, s
<1> USE <1>0, <1>1 DEF Safe, Kept, Complete, NotLive, Ready, Judging,
       Restoring, Restarted, Failed, Forward, Write, Exit, NoFile,
       Instruction, Get, Maybe, Remove, Run, Stream, Unless, Unpack,
       snapshotPolygonInv
<1>2. Init => snapshotPolygonInv
  BY DEF Init, Files
<1>3. snapshotPolygonInv /\ I.op = "run" => Complete
  OBVIOUS
<1>4. ASSUME snapshotPolygonInv, Test PROVE snapshotPolygonInv' /\ Kept
  BY <1>4, TestOutcome DEF Tests
<1>5. ASSUME snapshotPolygonInv, Quick PROVE snapshotPolygonInv' /\ Kept
  BY <1>5, SMTT(30) DEF Quick, Usable, Files
<1>6. ASSUME snapshotPolygonInv, Begin PROVE snapshotPolygonInv' /\ Kept
  BY <1>6, OpenedIs DEF Begin, Usable, Slow, Files
<1>7. ASSUME snapshotPolygonInv, End PROVE snapshotPolygonInv' /\ Kept
  BY <1>7, ResultIs DEF End, Usable, Slow, Files
<1>8. ASSUME snapshotPolygonInv, Exec \/ Restart \/ Kill PROVE snapshotPolygonInv' /\ Kept
  BY <1>8 DEF Exec, Restart, Kill, Killable, BootInv, InStep
<1>9. ASSUME snapshotPolygonInv, Grow PROVE snapshotPolygonInv' /\ Kept
  BY <1>9 DEF Grow, Grown, BootInv, InStep, Files
<1>10. ASSUME snapshotPolygonInv, Break \/ Deliver PROVE snapshotPolygonInv' /\ Kept
  BY <1>10 DEF Break, Deliver, Files
<1> QED
  BY <1>2, <1>3, <1>4, <1>5, <1>6, <1>7, <1>8, <1>9, <1>10 DEF Step, Proceed

\* An archive that broke off is not unpacked.
snapshotEthereumInv ==
  /\ NotLive({"db"})
  /\ pc \in {1, 2, 6, 7} =>
       files["db"] \in {"none", "good", "young", "overlay", "live"}
  /\ pc \in 3 .. 4 => files["db"] \in {"none", "young", "overlay"}
  /\ pc = 5 => /\ files["db"] \in {"none", "part", "young", "overlay"}
              /\ files["tmp"] = "good"

LEMMA EthereumSafe ==
  ASSUME BootInv, script = snapshotEthereum, scenario.script = "ethereum",
         faults \subseteq {"stop", "drop"}
  PROVE  Safe(snapshotEthereumInv, snapshotEthereumInv')
<1> DEFINE s == snapshotEthereum.steps
<1>0. /\ Len(s) = 7 /\ snapshotEthereum.main = 7
      /\ s[1] = Unless("tmp", 5) /\ s[2] = Large("db", 4) /\ s[3] = Maybe(3)
      /\ s[4] = Get("tmp", 1) /\ s[5] = Unpack("db", "tmp", 0)
      /\ s[6] = Remove("tmp") /\ s[7] = Run
      /\ snapshotEthereum.needs = {}
      /\ snapshotEthereum.durable = {}
      /\ snapshotEthereum.optional = {"db"} /\ snapshotEthereum.data = {"db"}
  BY DEF snapshotEthereum, Script
<1> HIDE DEF s
<1>1. pc \in 1 .. 7 /\ files \in [Files -> Contents] /\ I = s[pc]
  BY <1>0 DEF BootInv, Typed, I, s
<1> USE <1>0, <1>1 DEF Safe, Kept, Complete, NotLive, Ready, Judging,
       Restoring, Restarted, Failed, Forward, Write, Exit, NoFile,
       Instruction, Get, Large, Maybe, Remove, Run, Unless, Unpack,
       snapshotEthereumInv
<1>2. Init => snapshotEthereumInv
  BY DEF Init, Files
<1>3. snapshotEthereumInv /\ I.op = "run" => Complete
  OBVIOUS
<1>4. ASSUME snapshotEthereumInv, Test PROVE snapshotEthereumInv' /\ Kept
  BY <1>4, TestOutcome DEF Tests
<1>5. ASSUME snapshotEthereumInv, Quick PROVE snapshotEthereumInv' /\ Kept
  BY <1>5 DEF Quick, Usable, Files
<1>6. ASSUME snapshotEthereumInv, Begin PROVE snapshotEthereumInv' /\ Kept
  BY <1>6, OpenedIs DEF Begin, Usable, Slow, Files
<1>7. ASSUME snapshotEthereumInv, End PROVE snapshotEthereumInv' /\ Kept
  BY <1>7, ResultIs DEF End, Usable, Slow, Files
<1>8. ASSUME snapshotEthereumInv, Exec \/ Restart \/ Kill PROVE snapshotEthereumInv' /\ Kept
  BY <1>8 DEF Exec, Restart, Kill, Killable, BootInv, InStep
<1>9. ASSUME snapshotEthereumInv, Grow PROVE snapshotEthereumInv' /\ Kept
  BY <1>9 DEF Grow, Grown, BootInv, InStep, Files
<1>10. ASSUME snapshotEthereumInv, Break \/ Deliver PROVE snapshotEthereumInv' /\ Kept
  BY <1>10 DEF Break, Deliver, Files
<1> QED
  BY <1>2, <1>3, <1>4, <1>5, <1>6, <1>7, <1>8, <1>9, <1>10 DEF Step, Proceed

\* The base is complete when the part is extracted over it.
snapshotLitecoinInv ==
  /\ NotLive({"db"})
  /\ pc \in {1, 2, 3, 14} =>
       files["db"] \in {"none", "good", "young", "overlay", "live"}
  /\ pc = 4 => files["db"] \in {"none", "young", "overlay"}
  /\ pc = 5 => /\ files["db"] \in {"none", "part", "young", "overlay"}
              /\ files["tmp"] = "good"
  /\ pc \in {6, 7, 8, 9, 13} => files["db"] \in {"good", "overlay"}
  /\ pc \in 10 .. 11 => files["db"] = "overlay"
  /\ pc = 12 => files["db"] \in {"good", "part"}
  /\ pc \in {9, 10, 12} => files["part"] = "good"

LEMMA LitecoinSafe ==
  ASSUME BootInv, script = snapshotLitecoin, scenario.script = "litecoin",
         faults \subseteq {"stop"}
  PROVE  Safe(snapshotLitecoinInv, snapshotLitecoinInv')
<1> DEFINE s == snapshotLitecoin.steps
<1>0. /\ Len(s) = 14 /\ snapshotLitecoin.main = 14
      /\ s[1] = Unless("tmp", 12) /\ s[2] = Unless("part", 11)
      /\ s[3] = Large("db", 10) /\ s[4] = Get("tmp", 1)
      /\ s[5] = Unpack("db", "tmp", 0) /\ s[6] = Remove("tmp")
      /\ s[7] = Maybe(6) /\ s[8] = Get("part", 5) /\ s[9] = Pinned("db", 2)
      /\ s[10] = Add("db", "part", 3) /\ s[11] = Skip(1)
      /\ s[12] = Unpack("db", "part", 1) /\ s[13] = Remove("part")
      /\ s[14] = Run
      /\ snapshotLitecoin.needs = {}
      /\ snapshotLitecoin.durable = {}
      /\ snapshotLitecoin.optional = {"db"} /\ snapshotLitecoin.data = {"db"}
  BY DEF snapshotLitecoin, Script
<1> HIDE DEF s
<1>1. pc \in 1 .. 14 /\ files \in [Files -> Contents] /\ I = s[pc]
  BY <1>0 DEF BootInv, Typed, I, s
<1> USE <1>0, <1>1 DEF Safe, Kept, Complete, NotLive, Ready, Judging,
       Restoring, Restarted, Failed, Forward, Write, Exit, NoFile,
       Instruction, Add, Get, Large, Maybe, Pinned, Remove, Run, Skip,
       Unless, Unpack, snapshotLitecoinInv
<1>2. Init => snapshotLitecoinInv
  BY DEF Init, Files
<1>3. snapshotLitecoinInv /\ I.op = "run" => Complete
  OBVIOUS
<1>4. ASSUME snapshotLitecoinInv, Test PROVE snapshotLitecoinInv' /\ Kept
  BY <1>4, TestOutcome DEF Tests
<1>5. ASSUME snapshotLitecoinInv, Quick PROVE snapshotLitecoinInv' /\ Kept
  BY <1>5 DEF Quick, Usable, Files
<1>6. ASSUME snapshotLitecoinInv, Begin PROVE snapshotLitecoinInv' /\ Kept
  BY <1>6, OpenedIs DEF Begin, Usable, Slow, Files
<1>7. ASSUME snapshotLitecoinInv, End PROVE snapshotLitecoinInv' /\ Kept
  BY <1>7, ResultIs DEF End, Usable, Slow, Files
<1>8. ASSUME snapshotLitecoinInv, Exec \/ Restart \/ Kill PROVE snapshotLitecoinInv' /\ Kept
  BY <1>8 DEF Exec, Restart, Kill, Killable, BootInv, InStep
<1>9. ASSUME snapshotLitecoinInv, Grow PROVE snapshotLitecoinInv' /\ Kept
  BY <1>9 DEF Grow, Grown, BootInv, InStep, Files
<1>10. ASSUME snapshotLitecoinInv, Break \/ Deliver PROVE snapshotLitecoinInv' /\ Kept
  BY <1>10 DEF Break, Deliver, Files
<1> QED
  BY <1>2, <1>3, <1>4, <1>5, <1>6, <1>7, <1>8, <1>9, <1>10 DEF Step, Proceed

-----------------------------------------------------------------------------
(* All scripts together.                                                   *)

ScriptInv ==
  /\ scenario.script = "blast" => blastInv
  /\ scenario.script = "viction" => victionInv
  /\ scenario.script = "morph" => morphInv
  /\ scenario.script = "berachain" => berachainInv
  /\ scenario.script = "thundercore" => thundercoreInv
  /\ scenario.script = "cosmos" => cosmosNodeInv
  /\ scenario.script = "immutable" => immutableInv
  /\ scenario.script = "aptos" => aptosInv
  /\ scenario.script = "sui" => suiInv
  /\ scenario.script = "near" => nearInv
  /\ scenario.script = "cardano" => cardanoInv
  /\ scenario.script = "stellar" => stellarInv
  /\ scenario.script = "ton" => tonInv
  /\ scenario.script = "snapshot" => snapshotInv
  /\ scenario.script = "polygon" => snapshotPolygonInv
  /\ scenario.script = "ethereum" => snapshotEthereumInv
  /\ scenario.script = "litecoin" => snapshotLitecoinInv

\* Each script keeps its own invariant under the faults that it withstands.
LEMMA ScriptsSafe ==
  ASSUME BootInv, scenario \in Scenarios, Withstood
  PROVE  /\ Init => ScriptInv
         /\ ScriptInv /\ I.op = "run" => Complete
         /\ ScriptInv /\ Step /\ UNCHANGED scenario => ScriptInv' /\ Kept
<1> DEFINE name == scenario.script
<1>0. name \in DOMAIN Scripts
  BY KnownScenarios
<1>1. CASE name = "blast"
  <2>1. script = blast /\ scenario.script = "blast"
      /\ faults \subseteq Withstands["blast"]
    BY <1>1 DEF script, Scripts, Withstood
  <2>2. Safe(blastInv, blastInv')
    BY <2>1, BlastSafe
  <2> QED BY <1>0, <1>1, <2>2 DEF Safe, ScriptInv
<1>2. CASE name = "viction"
  <2>1. script = viction /\ scenario.script = "viction"
      /\ faults \subseteq Withstands["viction"]
    BY <1>2 DEF script, Scripts, Withstood
  <2>2. Safe(victionInv, victionInv')
    BY <2>1, VictionSafe
  <2> QED BY <1>0, <1>2, <2>2 DEF Safe, ScriptInv
<1>3. CASE name = "morph"
  <2>1. script = morph /\ scenario.script = "morph"
      /\ faults \subseteq Withstands["morph"]
    BY <1>3 DEF script, Scripts, Withstood
  <2>2. Safe(morphInv, morphInv')
    BY <2>1, MorphSafe
  <2> QED BY <1>0, <1>3, <2>2 DEF Safe, ScriptInv
<1>4. CASE name = "berachain"
  <2>1. script = berachain /\ scenario.script = "berachain"
      /\ faults \subseteq Withstands["berachain"]
    BY <1>4 DEF script, Scripts, Withstood
  <2>2. Safe(berachainInv, berachainInv')
    BY <2>1, BerachainSafe
  <2> QED BY <1>0, <1>4, <2>2 DEF Safe, ScriptInv
<1>5. CASE name = "thundercore"
  <2>1. script = thundercore /\ scenario.script = "thundercore"
      /\ faults \subseteq Withstands["thundercore"]
    BY <1>5 DEF script, Scripts, Withstood
  <2>2. Safe(thundercoreInv, thundercoreInv')
    BY <2>1, ThundercoreSafe DEF Withstands
  <2> QED BY <1>0, <1>5, <2>2 DEF Safe, ScriptInv
<1>6. CASE name = "cosmos"
  <2>1. script = cosmosNode /\ scenario.script = "cosmos"
      /\ faults \subseteq Withstands["cosmos"]
    BY <1>6 DEF script, Scripts, Withstood
  <2>2. Safe(cosmosNodeInv, cosmosNodeInv')
    BY <2>1, CosmosSafe DEF Withstands
  <2> QED BY <1>0, <1>6, <2>2 DEF Safe, ScriptInv
<1>7. CASE name = "immutable"
  <2>1. script = immutable /\ scenario.script = "immutable"
      /\ faults \subseteq Withstands["immutable"]
    BY <1>7 DEF script, Scripts, Withstood
  <2>2. Safe(immutableInv, immutableInv')
    BY <2>1, ImmutableSafe DEF Withstands
  <2> QED BY <1>0, <1>7, <2>2 DEF Safe, ScriptInv
<1>8. CASE name = "aptos"
  <2>1. script = aptos /\ scenario.script = "aptos"
      /\ faults \subseteq Withstands["aptos"]
    BY <1>8 DEF script, Scripts, Withstood
  <2>2. Safe(aptosInv, aptosInv')
    BY <2>1, AptosSafe DEF Withstands
  <2> QED BY <1>0, <1>8, <2>2 DEF Safe, ScriptInv
<1>9. CASE name = "sui"
  <2>1. script = sui /\ scenario.script = "sui"
      /\ faults \subseteq Withstands["sui"]
    BY <1>9 DEF script, Scripts, Withstood
  <2>2. Safe(suiInv, suiInv')
    BY <2>1, SuiSafe DEF Withstands
  <2> QED BY <1>0, <1>9, <2>2 DEF Safe, ScriptInv
<1>10. CASE name = "near"
  <2>1. script = near /\ scenario.script = "near"
      /\ faults \subseteq Withstands["near"]
    BY <1>10 DEF script, Scripts, Withstood
  <2>2. Safe(nearInv, nearInv')
    BY <2>1, NearSafe DEF Withstands
  <2> QED BY <1>0, <1>10, <2>2 DEF Safe, ScriptInv
<1>11. CASE name = "cardano"
  <2>1. script = cardano /\ scenario.script = "cardano"
      /\ faults \subseteq Withstands["cardano"]
    BY <1>11 DEF script, Scripts, Withstood
  <2>2. Safe(cardanoInv, cardanoInv')
    BY <2>1, CardanoSafe DEF Withstands
  <2> QED BY <1>0, <1>11, <2>2 DEF Safe, ScriptInv
<1>12. CASE name = "stellar"
  <2>1. script = stellar /\ scenario.script = "stellar"
      /\ faults \subseteq Withstands["stellar"]
    BY <1>12 DEF script, Scripts, Withstood
  <2>2. Safe(stellarInv, stellarInv')
    BY <2>1, StellarSafe DEF Withstands
  <2> QED BY <1>0, <1>12, <2>2 DEF Safe, ScriptInv
<1>13. CASE name = "ton"
  <2>1. script = ton /\ scenario.script = "ton"
      /\ faults \subseteq Withstands["ton"]
    BY <1>13 DEF script, Scripts, Withstood
  <2>2. Safe(tonInv, tonInv')
    BY <2>1, TonSafe DEF Withstands
  <2> QED BY <1>0, <1>13, <2>2 DEF Safe, ScriptInv
<1>14. CASE name = "snapshot"
  <2>1. script = snapshot /\ scenario.script = "snapshot"
      /\ faults \subseteq Withstands["snapshot"]
    BY <1>14 DEF script, Scripts, Withstood
  <2>2. Safe(snapshotInv, snapshotInv')
    BY <2>1, SnapshotSafe DEF Withstands
  <2> QED BY <1>0, <1>14, <2>2 DEF Safe, ScriptInv
<1>15. CASE name = "polygon"
  <2>1. script = snapshotPolygon /\ scenario.script = "polygon"
      /\ faults \subseteq Withstands["polygon"]
    BY <1>15 DEF script, Scripts, Withstood
  <2>2. Safe(snapshotPolygonInv, snapshotPolygonInv')
    BY <2>1, PolygonSafe DEF Withstands
  <2> QED BY <1>0, <1>15, <2>2 DEF Safe, ScriptInv
<1>16. CASE name = "ethereum"
  <2>1. script = snapshotEthereum /\ scenario.script = "ethereum"
      /\ faults \subseteq Withstands["ethereum"]
    BY <1>16 DEF script, Scripts, Withstood
  <2>2. Safe(snapshotEthereumInv, snapshotEthereumInv')
    BY <2>1, EthereumSafe DEF Withstands
  <2> QED BY <1>0, <1>16, <2>2 DEF Safe, ScriptInv
<1>17. CASE name = "litecoin"
  <2>1. script = snapshotLitecoin /\ scenario.script = "litecoin"
      /\ faults \subseteq Withstands["litecoin"]
    BY <1>17 DEF script, Scripts, Withstood
  <2>2. Safe(snapshotLitecoinInv, snapshotLitecoinInv')
    BY <2>1, LitecoinSafe DEF Withstands
  <2> QED BY <1>0, <1>17, <2>2 DEF Safe, ScriptInv
<1> QED
  BY <1>0, <1>1, <1>2, <1>3, <1>4, <1>5, <1>6, <1>7, <1>8, <1>9, <1>10,
     <1>11, <1>12, <1>13, <1>14, <1>15, <1>16, <1>17 DEF Scripts

VolumeInv == scenario \in Scenarios /\ (Withstood => ScriptInv)

\* The inductive step, and what every step spares.
LEMMA VolumeInvStep ==
  BootInv /\ VolumeInv /\ [Step]_vars /\ UNCHANGED scenario
    => VolumeInv' /\ (Withstood => Kept)
<1> SUFFICES ASSUME BootInv, VolumeInv, [Step]_vars, UNCHANGED scenario
             PROVE  VolumeInv' /\ (Withstood => Kept)
  OBVIOUS
<1>0. scenario \in Scenarios /\ (Withstood' <=> Withstood)
  BY DEF VolumeInv, Withstood, faults
<1>1. CASE Step
  BY <1>0, <1>1, ScriptsSafe DEF VolumeInv
<1>2. CASE UNCHANGED vars
  <2>1. files' = files /\ pc' = pc /\ script' = script
    BY <1>2 DEF vars, script
  <2>2. Kept
    BY <2>1 DEF Kept, Ready
  <2>3. ScriptInv' <=> ScriptInv
    BY <2>1 DEF ScriptInv, NotLive, Ready,
       blastInv, victionInv, morphInv, berachainInv, thundercoreInv,
       cosmosNodeInv, immutableInv, aptosInv, suiInv, nearInv, cardanoInv,
       stellarInv, tonInv, snapshotInv, snapshotPolygonInv,
       snapshotEthereumInv, snapshotLitecoinInv
  <2> QED BY <1>0, <2>2, <2>3 DEF VolumeInv
<1> QED
  BY <1>1, <1>2

\* It holds throughout.
LEMMA VolumeInvHolds == Spec => []VolumeInv
<1>1. Init => VolumeInv
  BY BootInvInit, ScriptsSafe DEF VolumeInv, Init
<1> QED
  BY <1>1, VolumeInvStep, BootInvHolds, NextIsStep, PTL DEF Spec

\* The node runs only at the end of its script, on a complete volume.
LEMMA RunsComplete ==
  BootInv /\ VolumeInv /\ Withstood /\ I.op = "run" => Complete
BY ScriptsSafe DEF VolumeInv

\* However often a script is interrupted by the faults that it withstands, the
\* node never starts on a file that is unfinished, generated or another one
\* than the pinned one.
THEOREM StartsOnPinnedHolds == Spec => []StartsOnPinned
<1>1. BootInv /\ VolumeInv => StartsOnPinned
  BY RunsComplete DEF BootInv, InStep, Complete, Ready, StartsOnPinned
<1> QED
  BY <1>1, BootInvHolds, VolumeInvHolds, PTL

\* No later start removes or overwrites what the node has synced; and the
\* little that a node began with is lost only to the scripts that judge a
\* database by its size or its marks.
THEOREM LiveDataIsKept == Spec => LiveDataKept
<1>1. BootInv /\ VolumeInv /\ [Step]_vars /\ UNCHANGED scenario
        => [Withstood => \A f \in Files :
              /\ files[f] = "live" => files'[f] = "live"
              /\ files[f] = "young" /\ scenario.script \notin Judging =>
                   files'[f] \in {"young", "live"}]_<<vars, scenario>>
  BY VolumeInvStep DEF Kept
<1> QED
  BY <1>1, BootInvHolds, VolumeInvHolds, NextIsStep, PTL DEF Spec, LiveDataKept

\* The safety part of the refinement: every step of a bootstrap provides a
\* piece, starts the node on a volume on which nothing is missing, stops it, or
\* leaves both as they are.
THEOREM VolumeIsImplemented ==
  Spec /\ Withstood => V!Init /\ [][V!Next]_<<Missing, running>>
<1>1. Init => V!Init
  BY DEF Init, V!Init
<1>2. Withstood /\ UNCHANGED scenario => Withstood'
  BY DEF Withstood, faults
<1>3. BootInv /\ VolumeInv /\ Withstood /\ [Step]_vars /\ UNCHANGED scenario
        => [V!Next]_<<Missing, running>>
  <2> SUFFICES ASSUME BootInv, VolumeInv, Withstood, [Step]_vars,
                      UNCHANGED scenario
               PROVE  [V!Next]_<<Missing, running>>
    OBVIOUS
  <2>1. Kept /\ script' = script
    BY VolumeInvStep DEF script
  <2>2. Missing' \subseteq Missing
    BY <2>1 DEF Missing, Kept, Ready
  <2>3. CASE running' = running
    <3>1. CASE Missing' = Missing
      BY <2>3, <3>1
    <3>2. CASE Missing' # Missing
      BY <2>2, <2>3, <3>2 DEF V!Next, V!Provide
    <3> QED BY <3>1, <3>2
  <2>4. CASE running' # running
    <3>1. Exec \/ Restart
      BY <2>4 DEF Step, Proceed, Test, Quick, Begin, End, Grow, Kill, Break,
         Deliver, vars
    <3>2. files' = files
      BY <3>1 DEF Exec, Restart
    <3>3. Missing' = Missing
      BY <2>1, <3>2 DEF Missing
    <3>4. CASE Exec
      <4>1. ~running /\ running' = TRUE /\ I.op = "run"
        BY <2>4, <3>4 DEF Exec
      <4>2. Missing = {}
        BY <4>1, RunsComplete DEF Missing, Complete, Ready
      <4> QED BY <3>3, <4>1, <4>2 DEF V!Next, V!Start
    <3>5. CASE Restart
      BY <3>3, <3>5 DEF Restart, V!Next, V!Stop
    <3> QED BY <3>1, <3>4, <3>5
  <2> QED BY <2>3, <2>4
<1> QED
  BY <1>1, <1>2, <1>3, BootInvHolds, VolumeInvHolds, NextIsStep, PTL DEF Spec
=============================================================================
