---------------------------- MODULE BootScripts ----------------------------
(***************************************************************************)
(* The scripts that prepare the data volume before a node starts: the      *)
(* container commands and init containers of the adapters                  *)
(* (internal/adapters) and the snapshot restore (internal/snapshot).       *)
(*                                                                         *)
(* A script is a sequence of instructions over named files; Bootstrap says *)
(* what each one does. Names and URLs, the edits inside a configuration    *)
(* file and the permissions are left out; every test, every point where    *)
(* the script can fail, and the order of the writes are kept. Of several   *)
(* files that a script treats alike two are kept.                          *)
(***************************************************************************)
EXTENDS Integers, Sequences

(* Jumps are relative: n skips the next n instructions. Exit leaves the    *)
(* container with an error, as set -e does.                                *)
Exit == -1

Instruction(op, f, g, to) == [op |-> op, f |-> f, g |-> g, to |-> to]

NoFile == "nofile"   \* of an instruction that is about none

(* Tests that skip n instructions. *)
Unless(f, n) == Instruction("exists", f, f, n)      \* [ -f f ]
Pinned(f, n) == Instruction("pinned", f, f, n)      \* sha256 of f is the pin
Large(f, n)  == Instruction("large", f, f, n)       \* f is taken for a database,
                                                    \* by its size or its marks
Maybe(n)     == Instruction("maybe", NoFile, NoFile, n)     \* what others decide
Skip(n)      == Instruction("skip", NoFile, NoFile, n)
(* Commands; to is where the script goes when the command fails. *)
Get(f, to)       == Instruction("get", f, f, to)    \* download into f
Stream(f, to)    == Instruction("stream", f, f, to) \* download and extract
Verify(f)        == Instruction("verify", f, f, Exit)
Unpack(f, g, to) == Instruction("unpack", f, g, to) \* f written from g
Found(f, g, to)  == Instruction("found", f, g, to)  \* database f from g
Add(f, g, to)    == Instruction("add", f, g, to)    \* g is not all of f
Generate(f)      == Instruction("generate", f, f, Exit)
Copy(f)          == Instruction("copy", f, f, Exit) \* f written in place
Read(f, g)       == Instruction("read", f, g, Exit) \* g becomes a copy of f
Put(f, g)        == Instruction("put", f, g, Exit)  \* f written from that copy
Edit(f, to)      == Instruction("edit", f, f, to)   \* f written and renamed
Move(f, g)       == Instruction("move", f, g, Exit)
Remove(f)        == Instruction("remove", f, f, Exit)
Touch(f)         == Instruction("touch", f, f, Exit)
Fail             == Instruction("fail", NoFile, NoFile, Exit)
Run              == Instruction("run", NoFile, NoFile, Exit)

(* A script: the instructions of the init container and of the main        *)
(* container, the files that the node must have been given, those that are *)
(* kept for good once they are right, those that may be missing, and those *)
(* that the running node writes to.                                        *)
Script(init, main, needs, durable, optional, data) ==
  [steps |-> init \o main, main |-> Len(init) + 1, needs |-> needs,
   durable |-> durable, optional |-> optional, data |-> data]

-----------------------------------------------------------------------------
(* Scripts with pinned checksums. *)

(* Slip: the file is moved in place before its checksum is compared. *)
fetchUnverified(f) == <<Get("part", Exit), Move("part", f), Verify(f)>>

fetch(f) == <<Get("part", Exit), Verify("part"), Move("part", f)>>

blast ==
  Script(<< >>,
    <<Unless("marker", 6)>> \o fetch("genesis") \o
    <<Found("db", "genesis", Exit), Remove("genesis"), Touch("marker"), Run>>,
    {"db"}, {"db"}, {}, {"db"})

viction ==
  Script(<< >>,
    <<Unless("marker", 2), Found("db", "image", Exit), Touch("marker"), Run>>,
    {"db"}, {"db"}, {}, {"db"})

morph ==
  Script(<< >>,
    <<Unless("config", 3)>> \o fetch("config") \o
    <<Unless("genesis", 3)>> \o fetch("genesis") \o <<Run>>,
    {"config", "genesis"}, {"config", "genesis"}, {}, {})

(* The node may be given a key or a secret that it makes itself; the       *)
(* mounted app.toml is copied on every start.                              *)
berachain ==
  Script(<< >>,
    <<Unless("key", 2), Found("key", "image", Exit), Generate("genesis"),
      Pinned("genesis", 3)>> \o fetch("genesis") \o
    <<Unless("marker", 4)>> \o fetch("config") \o
    <<Touch("marker"), Copy("app"), Unless("jwt", 1),
      Found("jwt", "image", Exit), Run>>,
    {"genesis", "config", "app"}, {"genesis", "config"}, {}, {})

(* Slip: the archive is extracted where the restore looks for it. *)
thundercoreInPlace ==
  Script(
    <<Unless("chain", 1), Stream("chain", Exit)>>,
    <<Pinned("genesis", 3)>> \o fetch("genesis") \o
    <<Pinned("config", 3)>> \o fetch("config") \o <<Copy("app"), Run>>,
    {"chain", "genesis", "config", "app"}, {"chain", "genesis", "config"}, {},
    {"chain"})

thundercore ==
  Script(
    <<Unless("chain", 4), Remove("part"), Stream("part", Exit),
      Remove("chain"), Move("part", "chain")>>,
    <<Pinned("genesis", 3)>> \o fetch("genesis") \o
    <<Pinned("config", 3)>> \o fetch("config") \o <<Copy("app"), Run>>,
    {"chain", "genesis", "config", "app"}, {"chain", "genesis", "config"}, {},
    {"chain"})

(* cosmosNode.script, after the toolbox that some images need. <binary>    *)
(* init writes a genesis of its own before the pinned one is installed.    *)
cosmosNode ==
  Script(<<Remove("toolbox"), Unpack("toolbox", "image", Exit)>>,
    <<Unless("genesis", 10), Generate("app"), Generate("config"),
      Generate("genesis"), Remove("genesis"), Edit("config", Exit),
      Get("dl", Exit), Verify("dl"), Unpack("part", "dl", Exit), Remove("dl"),
      Move("part", "genesis"), Edit("app", Exit), Run>>,
    {"genesis", "config", "app"}, {"genesis"}, {}, {})

-----------------------------------------------------------------------------
(* Scripts that trust what they download. *)
immutable ==
  Script(<< >>, <<Unless("db", 1), Stream("db", 0), Run>>,
         {"db"}, {"db"}, {}, {"db"})

aptos ==
  Script(<< >>,
    <<Unless("genesis", 1), Get("genesis", 0),
      Unless("config", 1), Get("config", 0), Run>>,
    {"genesis", "config"}, {"genesis", "config"}, {}, {})

(* The first init container runs before there is a genesis: the formal     *)
(* snapshot fails, and the node starts without it. A database without its  *)
(* CURRENT files is wiped, the files of a download are resumed.            *)
sui ==
  Script(
    <<Large("db", 7), Unless("db", 1), Skip(4), Maybe(2),
      Found("db", "genesis", 1), Skip(2), Remove("db"),
      Found("db", "genesis", 0)>>,
    <<Unless("genesis", 1), Get("genesis", 0), Run>>,
    {"genesis"}, {"genesis"}, {"db"}, {"db"})

near ==
  Script(<< >>,
    <<Unless("genesis", 1), Skip(1), Unless("config", 2), Get("genesis", 0),
      Get("config", 0), Edit("config", 0), Run>>,
    {"genesis", "config"}, {"genesis", "config"}, {}, {})

cardano ==
  LET load(f) == <<Unless(f, 4), Get(f, 1), Skip(2), Remove(f), Fail>>
  IN Script(<< >>,
       <<Unless("marker", 2), Remove("config"), Remove("genesis")>> \o
       load("config") \o load("genesis") \o
       <<Read("config", "tmp"), Put("config", "tmp"), Copy("topology"),
         Touch("marker"), Run>>,
       {"config", "genesis", "topology"}, {"genesis"}, {}, {})

stellar ==
  Script(<< >>, <<Large("db", 2), Remove("db"), Generate("db"), Run>>,
         {}, {}, {"db"}, {"db"})

(* With DUMP_URL. A marker without the state is stale. *)
ton ==
  Script(<< >>,
    <<Unless("marker", 1), Skip(2), Large("db", 1), Remove("marker"),
      Unless("marker", 9), Large("db", 7), Remove("db"), Large("dump", 1),
      Get("dump", 0), Unless("dump", 1), Skip(3), Unpack("db", "dump", 2),
      Remove("dump"), Touch("marker"), Run>>,
    {}, {}, {"db"}, {"db"})

-----------------------------------------------------------------------------
(* The snapshot restore. It always lets the node start.                    *)

(* Slip: the restore does not look at what is on the volume. *)
snapshotAlways ==
  Script(
    <<Maybe(4), Get("tmp", 3), Unpack("db", "tmp", 2), Remove("tmp"), Skip(2),
      Maybe(1), Stream("db", 0)>>,
    <<Run>>, {}, {}, {"db"}, {"db"})

(* MinIO through a temporary file, then a public source as a stream; each  *)
(* may have no archive.                                                    *)
snapshot ==
  Script(
    <<Large("db", 7), Maybe(4), Get("tmp", 3), Unpack("db", "tmp", 2),
      Remove("tmp"), Skip(2), Maybe(1), Stream("db", 0)>>,
    <<Run>>, {}, {}, {"db"}, {"db"})

(* bor and heimdall: an error of MinIO sends what is left to the public    *)
(* source.                                                                 *)
snapshotPolygon ==
  Script(
    <<Unless("bor", 4), Maybe(3), Get("tmp", 8), Unpack("bor", "tmp", 7),
      Remove("tmp"), Unless("heimdall", 4), Maybe(3), Get("tmp", 2),
      Unpack("heimdall", "tmp", 1), Remove("tmp"), Unless("bor", 2), Maybe(1),
      Stream("bor", 0), Unless("heimdall", 2), Maybe(1),
      Stream("heimdall", 0)>>,
    <<Run>>, {}, {}, {"bor", "heimdall"}, {"bor", "heimdall"})

(* The archive is a file of the volume: a second start finds it there. *)
snapshotEthereum ==
  Script(
    <<Unless("tmp", 5), Large("db", 4), Maybe(3), Get("tmp", 1),
      Unpack("db", "tmp", 0), Remove("tmp")>>,
    <<Run>>, {}, {}, {"db"}, {"db"})

(* A base and a part. The part is extracted over the base, and also when   *)
(* there is none: the test on db stands for what the extraction gives.     *)
snapshotLitecoin ==
  Script(
    <<Unless("tmp", 12), Unless("part", 11), Large("db", 10), Get("tmp", 1),
      Unpack("db", "tmp", 0), Remove("tmp"), Maybe(6), Get("part", 5),
      Pinned("db", 2), Add("db", "part", 3), Skip(1), Unpack("db", "part", 1),
      Remove("part")>>,
    <<Run>>, {}, {}, {"db"}, {"db"})

Scripts ==
  [blast |-> blast, viction |-> viction, morph |-> morph,
   berachain |-> berachain, thundercore |-> thundercore,
   cosmos |-> cosmosNode, immutable |-> immutable, aptos |-> aptos,
   sui |-> sui, near |-> near, cardano |-> cardano, stellar |-> stellar,
   ton |-> ton, snapshot |-> snapshot, polygon |-> snapshotPolygon,
   ethereum |-> snapshotEthereum, litecoin |-> snapshotLitecoin]
=============================================================================
