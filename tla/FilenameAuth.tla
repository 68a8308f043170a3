----------------------------- MODULE FilenameAuth -----------------------------
(***************************************************************************)
(* Package filenameauth (internal/parallelcrypto/parallelcrypto.go): a MAC *)
(* appended to encrypted file names, checked when a name is read back,    *)
(* against a directory an attacker can write to.  A name is a sequence of *)
(* characters.  HMAC-SHA256 is ideal: Mac(k, d) differs for every key and *)
(* data.  The base64 URL encoding of a MAC is one character [b64, pad]:   *)
(* it never contains the separator (the URL alphabet has no '.'), and a    *)
(* string that is not exactly one such character does not decode to a     *)
(* MAC of 32 bytes, so hmac.Equal rejects it.  pad stands for the 2 bits   *)
(* of the 43rd character that no MAC bit fills.                            *)
(***************************************************************************)
EXTENDS Naturals, Sequences, SequencesExt, FiniteSets

CONSTANTS
  NameChars,    \* characters of encrypted names, the separator among them
  Sep,          \* FilenameAuthSeparator, "."
  Junk,         \* a base64 URL character that is not a whole encoded MAC
  MasterKey,    \* the key deriveFilenameMACKey derives from the master key
  NoKey,        \* fa.macKey = nil: HMAC with an empty key
  MaxNameLen,   \* bound on the length of encrypted names
  MaxEntries    \* bound on the entries of the directory

ASSUME Sep \in NameChars /\ Junk \notin NameChars

Names == BoundedSeq(NameChars, MaxNameLen)
Keys == {MasterKey, NoKey}

calculateMACKeyOnly(key, data) == [key |-> key, data |-> << >>]

\* calculateMAC: HMAC-SHA256 keyed with fa.macKey over the name's bytes.
calculateMAC(key, data) == [key |-> key, data |-> data]

\* base64.URLEncoding.EncodeToString writes the unused bits as 0.
Encode(mac) == [b64 |-> mac, pad |-> 0]

\* DecodeString is not strict: it ignores the unused bits, so four
\* spellings of a MAC decode to it.
PadBits == 0..3
Spellings(mac) == {[b64 |-> mac, pad |-> b] : b \in PadBits}
Decodes(s) == Len(s) = 1 /\ s[1] \notin NameChars \cup {Junk}

\* splitAuthenticatedName: split at the last separator, if there is one.
splitAuthenticatedNameFirst(s) ==
  LET i == SelectInSeq(s, LAMBDA c : c = Sep)
  IN IF i = 0 THEN <<s>> ELSE <<SubSeq(s, 1, i - 1), SubSeq(s, i + 1, Len(s))>>

splitAuthenticatedName(s) ==
  LET i == SelectLastInSeq(s, LAMBDA c : c = Sep)
  IN IF i = 0 THEN <<s>> ELSE <<SubSeq(s, 1, i - 1), SubSeq(s, i + 1, Len(s))>>

VARIABLES
  enabled,   \* fa.enabled
  macKey,    \* fa.macKey
  dir,       \* the directory's entries, as stored on disk
  created    \* history: names AuthenticateFilename produced under MasterKey

vars == <<enabled, macKey, dir, created>>

\* AuthenticateFilename: the name, the separator and the encoded MAC, or
\* the name itself when disabled.
AuthenticateFilename(n) ==
  IF enabled THEN n \o <<Sep, Encode(calculateMAC(macKey, n))>> ELSE n

VerifyFilenameWhole(s) ==
  IF ~enabled THEN [ok |-> TRUE, name |-> s]
  ELSE LET parts == splitAuthenticatedName(s)
       IN IF /\ Len(parts) = 2 /\ Decodes(parts[2])
             /\ parts[2][1].b64 = calculateMAC(macKey, parts[1])
          THEN [ok |-> TRUE, name |-> s]
          ELSE [ok |-> FALSE, name |-> << >>]

\* VerifyFilename: the result and whether it is accepted.  Disabled, every
\* name is returned as it is; otherwise the name must split in two, the
\* second part decode, and the MAC of the first part equal the decoded one.
VerifyFilename(s) ==
  IF ~enabled THEN [ok |-> TRUE, name |-> s]
  ELSE LET parts == splitAuthenticatedName(s)
       IN IF /\ Len(parts) = 2 /\ Decodes(parts[2])
             /\ parts[2][1].b64 = calculateMAC(macKey, parts[1])
          THEN [ok |-> TRUE, name |-> parts[1]]
          ELSE [ok |-> FALSE, name |-> << >>]

\* New(masterKey, enabled): the MAC key is derived only when enabled.
Init ==
  /\ enabled \in BOOLEAN
  /\ macKey = IF enabled THEN MasterKey ELSE NoKey
  /\ dir = {}
  /\ created = {}

\* The file system stores a new file under its authenticated name.
Create(n) ==
  /\ Cardinality(dir) < MaxEntries
  /\ dir' = dir \cup {AuthenticateFilename(n)}
  /\ created' = IF enabled /\ macKey = MasterKey THEN created \cup {n}
                                                ELSE created
  /\ UNCHANGED <<enabled, macKey>>

\* Wipe zeroes the MAC key and sets it to nil.
Wipe ==
  /\ macKey # NoKey
  /\ macKey' = NoKey
  /\ UNCHANGED <<enabled, dir, created>>

(***************************************************************************)
(* The attacker writes entries made of name characters, MACs it has read *)
(* from the directory, MACs under the empty key (which anyone can         *)
(* compute), in any of their spellings, and junk, and deletes entries.    *)
(***************************************************************************)
KnownMacs ==
  {c \in UNION {ToSet(e) : e \in dir} : c \notin NameChars \cup {Junk}}
    \cup {Encode(calculateMAC(NoKey, n)) : n \in Names}

Tamper ==
  /\ Cardinality(dir) < MaxEntries
  /\ \E p \in Names, t \in {<< >>, <<Sep, Junk>>}
                         \cup {<<Sep, c>> : c \in UNION {Spellings(m.b64) : m \in KnownMacs}} :
       dir' = dir \cup {p \o t}
  /\ UNCHANGED <<enabled, macKey, created>>

Delete ==
  /\ \E e \in dir : dir' = dir \ {e}
  /\ UNCHANGED <<enabled, macKey, created>>

Next == Wipe \/ Tamper \/ Delete \/ \E n \in Names : Create(n)

Spec == Init /\ [][Next]_vars

(***************************************************************************)
(* Properties                                                              *)
(***************************************************************************)

TypeOK ==
  /\ enabled \in BOOLEAN /\ macKey \in Keys
  /\ \A e \in dir : Len(e) <= MaxNameLen + 2
  /\ created \subseteq Names
  /\ \A e \in dir : enabled /\ VerifyFilename(e).ok => VerifyFilename(e).name \in Names

\* VerifyFilename gives back what AuthenticateFilename was given, for every
\* encrypted name, separators in it (gocryptfs.longname.* names) included,
\* in every state of the key.
RoundTrip ==
  \A n \in Names : VerifyFilename(AuthenticateFilename(n)) = [ok |-> TRUE, name |-> n]

\* Tampering is detected: while the derived MAC key is in place, every
\* entry of the directory that VerifyFilename accepts names a file that
\* AuthenticateFilename created, whatever the attacker spliced together
\* from names, separators and MACs read from other entries.
AcceptedWereCreated ==
  enabled /\ macKey = MasterKey =>
    \A e \in dir : VerifyFilename(e).ok => VerifyFilename(e).name \in created

=============================================================================
