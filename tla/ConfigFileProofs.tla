-------------------------- MODULE ConfigFileProofs --------------------------
(***************************************************************************)
(* What holds of ConfigFile for every configuration, every set of keys,    *)
(* and any number of genkey runs, of saves and of runs that die.  The      *)
(* lemmas on FileNext serve the components that EXTEND ConfigFile as well. *)
(***************************************************************************)
EXTENDS ConfigFile, FiniteSetTheorems, TLAPS

-----------------------------------------------------------------------------
(* Types.                                                                  *)

LEMMA LengthType == \A c \in Config : Length(c) \in Nat \ {0}
<1> SUFFICES ASSUME NEW c \in Config PROVE Length(c) \in Nat \ {0}
  OBVIOUS
<1> DEFINE full == {k \in KeyIds : c.secrets[k] \in Secrets}
<1>1. IsFiniteSet(full)
  BY ConfigAssumption, FS_Subset
<1>2. Cardinality(full) \in Nat
  BY <1>1, FS_CardinalityType
<1> HIDE DEF full
<1>3. 1 + Cardinality(full) \in Nat \ {0}
  BY <1>2
<1> QED BY <1>3 DEF Length, full

\* Rotating a key changes its secret and nothing else.
LEMMA RotatedType ==
  ASSUME NEW c \in Config, NEW k \in KeyIds, NEW w \in Writers
  PROVE  /\ Rotated(c, k, w) \in Config
         /\ Rotated(c, k, w).secrets = [c.secrets EXCEPT ![k] = w]
BY DEF Rotated, Config, Secrets

LEMMA FileTypesStart == FileInit => FileTypeOK
<1> SUFFICES ASSUME FileInit PROVE FileTypeOK
  OBVIOUS
<1>1. FirstConfig \in Config /\ Length(FirstConfig) \in Nat
  BY ConfigAssumption, LengthType
<1>2. FirstConfig.secrets \in [KeyIds -> Secrets \cup {NoSecret, NotListed}]
  BY <1>1 DEF Config
<1>3. 0 \in 0 .. MaxEdits /\ 0 \in 0 .. MaxKills
  BY ConfigAssumption
<1> QED BY <1>1, <1>2, <1>3 DEF FileInit, FileTypeOK, GenStates

LEMMA FileTypesKeep == FileTypeOK /\ [FileNext]_fileVars => FileTypeOK'
<1> SUFFICES ASSUME FileTypeOK, [FileNext]_fileVars PROVE FileTypeOK'
  OBVIOUS
<1> USE DEF FileTypeOK, GenStates
<1>1. ASSUME NEW w \in Writers, GenRead(w) PROVE FileTypeOK'
  <2>1. CASE content # Broken /\ entry[w] \in Listed(content)
    <3>1. Rotated(content, entry[w], w) \in Config
      BY <2>1, RotatedType
    <3> QED BY <1>1, <2>1, <3>1 DEF GenRead
  <2>2. CASE ~(content # Broken /\ entry[w] \in Listed(content))
    BY <1>1, <2>2 DEF GenRead
  <2> QED BY <2>1, <2>2
<1>2. ASSUME NEW w \in Writers, GenOpen(w) PROVE FileTypeOK'
  BY <1>2 DEF GenOpen
<1>3. ASSUME NEW w \in Writers, GenClose(w) PROVE FileTypeOK'
  <2>1. Length(data[w]) \in Nat /\ content' \in Config \cup {Broken} /\ size' \in Nat
    BY <1>3, LengthType DEF GenClose
  <2>2. latest' \in [KeyIds -> Secrets \cup {NoSecret, NotListed}]
    BY <1>3 DEF GenClose, Secrets
  <2> QED BY <1>3, <2>1, <2>2 DEF GenClose
<1>4. ASSUME NEW w \in Writers, GenDies(w) PROVE FileTypeOK'
  BY <1>4, ConfigAssumption DEF GenDies
<1>5. ASSUME NEW c \in Edits, Edit(c) PROVE FileTypeOK'
  <2>1. c \in Config \cup {Broken}
    BY ConfigAssumption
  <2>2. size' \in Nat
    BY <1>5, <2>1, LengthType DEF Edit
  <2>3. latest' \in [KeyIds -> Secrets \cup {NoSecret, NotListed}]
    BY <1>5, <2>1 DEF Edit, Config
  <2> QED BY <1>5, <2>1, <2>2, <2>3, ConfigAssumption DEF Edit
<1>6. CASE UNCHANGED fileVars
  BY <1>6 DEF fileVars
<1> QED BY <1>1, <1>2, <1>3, <1>4, <1>5, <1>6 DEF FileNext

\* What the file, the genkey runs and the operator hold stays well typed.
THEOREM FileTypeCorrect == FileSpec => []FileTypeOK
BY FileTypesStart, FileTypesKeep, PTL DEF FileSpec

-----------------------------------------------------------------------------
(* Rotations.  While nothing has disturbed it, at most one run is under    *)
(* way, what it holds is the content of the file with its key rotated, and *)
(* once it has truncated the file it still holds all that was there.       *)

RotationInv ==
  ~disturbed =>
    /\ \A v, w \in Writers : Running(v) /\ Running(w) => v = w
    /\ \A w \in Writers : gen[w] = "read" =>
         content # Broken /\ data[w] = Rotated(content, entry[w], w)
    /\ \A w \in Writers : gen[w] = "open" =>
         size = 0 /\ data[w].secrets = [latest EXCEPT ![entry[w]] = w]

FileInv == FileTypeOK /\ RotationInv /\ RotationsStick

LEMMA RotationsStart == FileInit => FileInv
<1> SUFFICES ASSUME FileInit PROVE FileInv
  OBVIOUS
<1>1. RotationInv /\ RotationsStick
  BY ConfigAssumption DEF FileInit, RotationInv, RotationsStick, Running
<1> QED BY <1>1, FileTypesStart DEF FileInv

LEMMA RotationsKeep == FileInv /\ [FileNext]_fileVars => FileInv'
<1> SUFFICES ASSUME FileInv, [FileNext]_fileVars PROVE FileInv'
  OBVIOUS
<1> USE DEF FileInv
<1>1. FileTypeOK /\ FileTypeOK'
  BY FileTypesKeep
<1> SUFFICES ASSUME ~disturbed' PROVE (RotationInv /\ RotationsStick)'
  BY <1>1 DEF RotationInv, RotationsStick
<1>2. ASSUME NEW w \in Writers, GenRead(w) PROVE (RotationInv /\ RotationsStick)'
  <2>1. ~disturbed /\ \A v \in Writers : ~Running(v)
    BY <1>2 DEF GenRead
  <2>2. content # Broken /\ content.secrets = latest
    BY <2>1 DEF RotationsStick, Running
  <2>3. CASE entry[w] \in Listed(content)
    BY <1>1, <1>2, <2>1, <2>2, <2>3 DEF GenRead, FileTypeOK, RotationInv, RotationsStick, Running
  <2>4. CASE entry[w] \notin Listed(content)
    BY <1>1, <1>2, <2>1, <2>2, <2>4 DEF GenRead, FileTypeOK, RotationInv, RotationsStick, Running
  <2> QED BY <2>3, <2>4
<1>3. ASSUME NEW w \in Writers, GenOpen(w) PROVE (RotationInv /\ RotationsStick)'
  <2>1. ~disturbed /\ gen[w] = "read" /\ gen' = [gen EXCEPT ![w] = "open"]
        /\ content' = Broken /\ size' = 0
        /\ data' = data /\ latest' = latest /\ entry' = entry
    BY <1>3 DEF GenOpen
  <2>2. \A v \in Writers : Running(v) => v = w
    BY <2>1 DEF RotationInv, Running
  <2>3. content \in Config /\ content.secrets = latest /\ data[w] = Rotated(content, entry[w], w)
    BY <1>1, <2>1, <2>2 DEF RotationInv, RotationsStick, Running, FileTypeOK
  <2>4. data[w].secrets = [latest EXCEPT ![entry[w]] = w]
    <3>1. entry[w] \in KeyIds
      BY <1>1 DEF FileTypeOK
    <3>2. Rotated(content, entry[w], w).secrets = [content.secrets EXCEPT ![entry[w]] = w]
      BY <2>3, <3>1, RotatedType
    <3> QED BY <2>3, <3>2
  <2>5. gen'[w] = "open" /\ \A v \in Writers \ {w} : gen'[v] = gen[v] /\ gen[v] \notin {"read", "open"}
    BY <1>1, <2>1, <2>2 DEF FileTypeOK, Running
  <2> QED BY <2>1, <2>4, <2>5 DEF RotationInv, RotationsStick, Running
<1>4. ASSUME NEW w \in Writers, GenClose(w) PROVE (RotationInv /\ RotationsStick)'
  <2>1. ~disturbed /\ gen[w] = "open" /\ gen' = [gen EXCEPT ![w] = "done"]
        /\ latest' = [latest EXCEPT ![entry[w]] = w]
    BY <1>4 DEF GenClose
  <2>2. size = 0 /\ data[w].secrets = latest'
    BY <2>1 DEF RotationInv
  <2>3. data[w] \in Config /\ Length(data[w]) >= size
    BY <1>1, <2>2, LengthType DEF FileTypeOK
  <2>4. content' = data[w] /\ content' # Broken
    BY <1>4, <2>3, ConfigAssumption DEF GenClose
  <2>5. \A v \in Writers : gen'[v] \notin {"read", "open"}
    BY <1>1, <2>1 DEF FileTypeOK, RotationInv, Running
  <2> QED BY <2>2, <2>4, <2>5 DEF RotationInv, RotationsStick, Running
<1>5. ASSUME NEW w \in Writers, GenDies(w) PROVE FALSE
  BY <1>5 DEF GenDies
<1>6. ASSUME NEW c \in Edits, Edit(c) PROVE (RotationInv /\ RotationsStick)'
  BY <1>6 DEF Edit, RotationInv, RotationsStick, Running
<1>7. CASE UNCHANGED fileVars
  BY <1>7 DEF fileVars, RotationInv, RotationsStick, Running
<1> QED BY <1>2, <1>3, <1>4, <1>5, <1>6, <1>7 DEF FileNext

\* As long as genkey runs do not meet each other or the operator and none dies, every
\* rotated secret stays, and the file can be read whenever no run rewrites it
\* (config_manager.py 112-141).
THEOREM RotationsAreSafe == FileSpec => []RotationsStick
<1>1. FileInv => RotationsStick
  BY DEF FileInv
<1> QED BY <1>1, RotationsStart, RotationsKeep, PTL DEF FileSpec
=============================================================================
