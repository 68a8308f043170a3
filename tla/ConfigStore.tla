----------------------------- MODULE ConfigStore -----------------------------
(***************************************************************************)
(* The config envelope, gocryptfs.conf: the KDF parameters it records      *)
(* (package configfile, argon2.go), the crash-safe rewrite of the file     *)
(* (spec 4.3; that code is not part of this tree), the mount that loads it *)
(* and derives the key, and a host that edits the file by hand (spec 4.2:  *)
(* "attacker-controlled config").                                         *)
(*                                                                         *)
(* The file system keeps a cached and an on-disk copy of the directory    *)
(* (name -> inode) and of every inode's data.  The kernel writes cached    *)
(* state back at any time and in any order; fsync writes one part back;   *)
(* a crash replaces the cached state by the on-disk state.  The envelope's *)
(* other fields (wrapped master key, feature flags) are left out: only     *)
(* the KDF parameters decide what the properties tell apart.              *)
(***************************************************************************)
EXTENDS Integers, Functions

CONSTANTS
  Inodes,       \* inode numbers the file system hands out
  None,         \* a directory entry that does not exist
  LogNs,        \* -scryptn values a rewrite may be asked for
  Argon2Params, \* <<memory, iterations, parallelism>> a rewrite may be asked for
  EditValues,   \* field -> values the host may write into that field
  MaxSaves,     \* bound on rewrites
  MaxEdits      \* bound on manual edits

Names == {"conf", "tmp"}   \* gocryptfs.conf and its temporary file
Empty == [kdf |-> "none", data |-> "empty"]      \* a new or truncated file
Partial == [kdf |-> "none", data |-> "partial"]  \* an interrupted write

(***************************************************************************)
(* argon2.go: the parameter floors and the constructors.  KeyLen is       *)
(* cryptocore.KeyLen = 32; RandBytes(KeyLen) gives a 32-byte salt.         *)
(***************************************************************************)
KeyLen == 32

\* The fields of the Argon2idKDF and ScryptKDF structs as stored in the
\* config envelope (the salt as its length).
Argon2Fields == {"kdf", "salt", "memory", "iterations", "parallelism", "keyLen"}
ScryptFields == {"kdf", "salt", "N", "R", "P", "keyLen"}

Argon2idDefaultMemory == 64 * 1024
Argon2idDefaultIterations == 3
Argon2idDefaultParallelism == 4
Argon2idMinMemory == 16 * 1024
Argon2idMinIterations == 1
Argon2idMinParallelism == 1
Argon2idMinSaltLen == 16

ScryptDefaultLogN == 17
scryptMinR == 8
scryptMinP == 1
scryptMinLogN == 10
scryptMinSaltLen == 32

\* NewArgon2idKDF: 64 MiB, 3 iterations, parallelism 4.
NewArgon2idKDF ==
  [kdf |-> "argon2", salt |-> KeyLen, memory |-> Argon2idDefaultMemory,
   iterations |-> Argon2idDefaultIterations,
   parallelism |-> Argon2idDefaultParallelism, keyLen |-> KeyLen]

NewArgon2idKDFWithParams(memory, iterations, parallelism) ==
  [kdf |-> "argon2", salt |-> KeyLen, memory |-> memory,
   iterations |-> iterations, parallelism |-> parallelism, keyLen |-> KeyLen]

\* NewScryptKDF: N = 1 << uint32(logN) in a 64-bit int, which is 0 for
\* logN >= 64 (logN = 63 would give a negative N; LogNs keep clear of it).
NewScryptKDF(logN) ==
  [kdf |-> "scrypt", salt |-> KeyLen, R |-> 8, P |-> 1, keyLen |-> KeyLen,
   N |-> CASE logN <= 0 -> 2^ScryptDefaultLogN
           [] logN >= 64 -> 0
           [] OTHER -> 2^logN]

\* Argon2idKDF.validateParams: nil when every check passes.
validateArgon2Params(a) ==
  /\ a.memory >= Argon2idMinMemory
  /\ a.iterations >= Argon2idMinIterations
  /\ a.parallelism >= Argon2idMinParallelism
  /\ a.salt >= Argon2idMinSaltLen
  /\ a.keyLen >= KeyLen

validateScryptParamsNoR(s) ==
  /\ s.N >= 2^scryptMinLogN
  /\ s.P >= scryptMinP
  /\ s.salt >= scryptMinSaltLen
  /\ s.keyLen >= KeyLen

\* ScryptKDF.validateParams.
validateScryptParams(s) ==
  /\ s.N >= 2^scryptMinLogN
  /\ s.R >= scryptMinR
  /\ s.P >= scryptMinP
  /\ s.salt >= scryptMinSaltLen
  /\ s.keyLen >= KeyLen

\* Argon2idKDF.DeriveKey: exit(ScryptParams) on invalid parameters; argon2
\* .IDKey itself accepts everything validateParams lets through.
Argon2DeriveKey(a) == IF validateArgon2Params(a) THEN "key" ELSE "weak"

\* ScryptKDF.DeriveKey: exit(ScryptParams) on invalid parameters, and
\* log.Panicf when scrypt.Key refuses them (N not a power of two above 1,
\* or r * p >= 2^30).
ScryptDeriveKey(s) ==
  CASE ~validateScryptParams(s) -> "weak"
    [] \/ s.R * s.P >= 2^30
       \/ ~\E k \in 1..30 : s.N = 2^k -> "panic"
    [] OTHER -> "key"

DeriveKey(e) == IF e.kdf = "scrypt" THEN ScryptDeriveKey(e) ELSE Argon2DeriveKey(e)

VARIABLES
  dirC, dirD,    \* directory: cached and on disk, Names -> Inodes \cup {None}
  dataC, dataD,  \* inode data: cached and on disk
  pc,            \* step of the rewrite in progress
  newEnv,        \* the envelope being written
  mount,         \* "down", or the outcome of the last mount
  saves, edits   \* rewrites and manual edits so far

vars == <<dirC, dirD, dataC, dataD, pc, newEnv, mount, saves, edits>>

\* A freshly initialised volume: gocryptfs.conf written and synced.
Init ==
  \E e \in {NewScryptKDF(0), NewArgon2idKDF}, i \in Inodes :
    /\ dirC = [n \in Names |-> IF n = "conf" THEN i ELSE None]
    /\ dirD = dirC
    /\ dataC = [j \in Inodes |-> IF j = i THEN e ELSE Empty]
    /\ dataD = dataC
    /\ pc = "idle" /\ newEnv = e
    /\ mount = [res |-> "down"]
    /\ saves = 0 /\ edits = 0

Used == Range(dirC) \cup Range(dirD)

(***************************************************************************)
(* The rewrite (password change): the new envelope's key is derived first, *)
(* so the process has exited before writing when DeriveKey refuses it.     *)
(* Step 1 creates or truncates the temporary file and writes to it.        *)
(***************************************************************************)
CreateTmp ==
  /\ pc = "idle" /\ saves < MaxSaves
  /\ \E e \in {NewScryptKDF(l) : l \in LogNs}
           \cup {NewArgon2idKDF}
           \cup {NewArgon2idKDFWithParams(p[1], p[2], p[3]) : p \in Argon2Params} :
       /\ DeriveKey(e) = "key"
       /\ newEnv' = e
  /\ \E i \in IF dirC["tmp"] # None THEN {dirC["tmp"]} ELSE Inodes \ Used :
       /\ dirC' = [dirC EXCEPT !["tmp"] = i]
       /\ dataC' = [dataC EXCEPT ![i] = Empty]
       /\ dataD' = IF dirC["tmp"] # None THEN dataD ELSE [dataD EXCEPT ![i] = Empty]
  /\ pc' = "created" /\ saves' = saves + 1
  /\ UNCHANGED <<dirD, mount, edits>>

WriteTmp ==
  /\ pc = "created"
  /\ dataC' = [dataC EXCEPT ![dirC["tmp"]] = newEnv]
  /\ pc' = "written"
  /\ UNCHANGED <<dirC, dirD, dataD, newEnv, mount, saves, edits>>

SyncTmpNoop ==
  /\ pc = "written"
  /\ pc' = "synced"
  /\ UNCHANGED <<dirC, dirD, dataC, dataD, newEnv, mount, saves, edits>>

\* Step 2: fsync of the temporary file.
SyncTmp ==
  /\ pc = "written"
  /\ dataD' = [dataD EXCEPT ![dirC["tmp"]] = dataC[dirC["tmp"]]]
  /\ pc' = "synced"
  /\ UNCHANGED <<dirC, dirD, dataC, newEnv, mount, saves, edits>>

RenameLink ==
  /\ pc = "synced"
  /\ dirC' = [dirC EXCEPT !["conf"] = dirC["tmp"]]
  /\ pc' = "renamed"
  /\ UNCHANGED <<dirD, dataC, dataD, newEnv, mount, saves, edits>>

\* Step 3: rename(tmp, conf) replaces the entry atomically.
Rename ==
  /\ pc = "synced"
  /\ dirC' = [dirC EXCEPT !["conf"] = dirC["tmp"], !["tmp"] = None]
  /\ pc' = "renamed"
  /\ UNCHANGED <<dirD, dataC, dataD, newEnv, mount, saves, edits>>

\* Step 4: fsync of the directory; when it fails it is logged and the
\* rewrite still succeeds.
SyncDir ==
  /\ pc = "renamed"
  /\ \/ dirD' = dirC
     \/ UNCHANGED dirD
  /\ pc' = "idle"
  /\ UNCHANGED <<dirC, dataC, dataD, newEnv, mount, saves, edits>>

\* A failure in steps 1-3 (short write, failed fsync or rename): the
\* temporary file is removed and the error returned.  A short write leaves
\* part of the envelope in the file.
SaveFail ==
  /\ pc \in {"created", "written", "synced"}
  /\ dataC' = IF pc = "created" THEN [dataC EXCEPT ![dirC["tmp"]] = Partial]
                                ELSE dataC
  /\ dirC' = [dirC EXCEPT !["tmp"] = None]
  /\ pc' = "idle"
  /\ UNCHANGED <<dirD, dataD, newEnv, mount, saves, edits>>

(***************************************************************************)
(* The kernel, the machine and the host.                                  *)
(***************************************************************************)
\* Writeback of an inode's data, or of the directory, at the kernel's choice.
Writeback(i) ==
  /\ dataD[i] # dataC[i]
  /\ dataD' = [dataD EXCEPT ![i] = dataC[i]]
  /\ UNCHANGED <<dirC, dirD, dataC, pc, newEnv, mount, saves, edits>>

WritebackDir ==
  /\ dirD # dirC
  /\ dirD' = dirC
  /\ UNCHANGED <<dirC, dataC, dataD, pc, newEnv, mount, saves, edits>>

\* Power loss: what was not written back is gone, the rewrite and the
\* mounted file system with it.
Crash ==
  /\ dirC' = dirD /\ dataC' = dataD
  /\ pc' = "idle" /\ mount' = [res |-> "down"]
  /\ UNCHANGED <<dirD, dataD, newEnv, saves, edits>>

\* The host edits one KDF field of gocryptfs.conf in place (spec 8,
\* scenario 6).
Edit ==
  /\ edits < MaxEdits /\ dirC["conf"] # None
  /\ LET e == dataC[dirC["conf"]] IN
       /\ e.kdf # "none"
       /\ \E fld \in DOMAIN e \ {"kdf"} : \E v \in EditValues[fld] :
            dataC' = [dataC EXCEPT ![dirC["conf"]] = [e EXCEPT ![fld] = v]]
  /\ edits' = edits + 1
  /\ UNCHANGED <<dirC, dirD, dataD, pc, newEnv, mount, saves>>

\* Mount: load gocryptfs.conf and derive the key from its parameters.  The
\* outcome is "missing", "corrupt" (a FormatError), "weak" (exit code
\* ScryptParams), "panic", or the envelope the key was derived from.
Mount ==
  /\ mount.res = "down"
  /\ mount' = CASE dirC["conf"] = None -> [res |-> "missing"]
                [] dataC[dirC["conf"]].kdf = "none" -> [res |-> "corrupt"]
                [] DeriveKey(dataC[dirC["conf"]]) = "key"
                     -> [res |-> "key", env |-> dataC[dirC["conf"]]]
                [] OTHER -> [res |-> DeriveKey(dataC[dirC["conf"]])]
  /\ UNCHANGED <<dirC, dirD, dataC, dataD, pc, newEnv, saves, edits>>

Unmount ==
  /\ mount.res # "down"
  /\ mount' = [res |-> "down"]
  /\ UNCHANGED <<dirC, dirD, dataC, dataD, pc, newEnv, saves, edits>>

Next ==
  \/ CreateTmp \/ WriteTmp \/ SyncTmp \/ Rename \/ SyncDir \/ SaveFail
  \/ WritebackDir \/ Crash \/ Edit \/ Mount \/ Unmount
  \/ \E i \in Inodes : Writeback(i)

Spec == Init /\ [][Next]_vars

(***************************************************************************)
(* Properties                                                              *)
(***************************************************************************)
IsEnvelope(c) == DOMAIN c \in {ScryptFields, Argon2Fields}

TypeOK ==
  /\ dirC \in [Names -> Inodes \cup {None}] /\ dirD \in [Names -> Inodes \cup {None}]
  /\ \A i \in Inodes : \A c \in {dataC[i], dataD[i]} : c \in {Empty, Partial} \/ IsEnvelope(c)
  /\ IsEnvelope(newEnv) /\ mount.res \in {"down", "missing", "corrupt", "weak", "panic", "key"}
  /\ mount.res = "key" => IsEnvelope(mount.env)
  /\ pc \in {"idle", "created", "written", "synced", "renamed"}
  /\ saves \in 0..MaxSaves /\ edits \in 0..MaxEdits
  \* no hard links: the two names never share an inode
  /\ \A d \in {dirC, dirD} : d["conf"] # None => d["conf"] # d["tmp"]

\* Crash safety of the rewrite protocol (spec 4.3): whatever the kernel
\* has written back and whenever the machine loses power, gocryptfs.conf
\* on disk names an inode holding a complete envelope, never an empty or
\* half-written file, so the volume can always be mounted after a crash.
CrashSafe ==
  dirD["conf"] # None /\ IsEnvelope(dataD[dirD["conf"]])

\* The floors of spec 4.2, written from the spec: logN >= 10, r >= 8,
\* p >= 1, salt >= 32 bytes; memory >= 16 MiB, iterations >= 1,
\* parallelism >= 1, salt >= 16 bytes.
SpecFloors(e) ==
  IF e.kdf = "scrypt"
  THEN e.N >= 1024 /\ e.R >= 8 /\ e.P >= 1 /\ e.salt >= 32
  ELSE e.memory >= 16 * 1024 /\ e.iterations >= 1 /\ e.parallelism >= 1 /\ e.salt >= 16

\* No downgrade (spec 4.2, 7): a mount derives the key only from
\* parameters at or above the floors, whatever the host wrote into the
\* file, whichever rewrites, crashes and writebacks came before.
NoWeakMount == mount.res = "key" => SpecFloors(mount.env)

=============================================================================
