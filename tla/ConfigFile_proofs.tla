---------------------------- MODULE ConfigFile_proofs ----------------------------
(***************************************************************************)
(* What is written is what is read, for files of any length, whatever a    *)
(* user put into them, and for any limits.  The loops of config_open and   *)
(* of the writers are recursive functions; what they compute is shown by   *)
(* induction over the number of lines that were taken in.                  *)
(***************************************************************************)
EXTENDS ConfigFile, NaturalsInduction, SequenceTheorems, FiniteSetTheorems, TLAPS

(* A configuration in memory, and the keys it has.                         *)
Configs ==
    {cfg \in Seq(Entries) :
        /\ Len(cfg) <= CONFIG_MAX_ENTRIES
        /\ \A i, j \in DOMAIN cfg : cfg[i].key = cfg[j].key => i = j
        /\ \A i \in DOMAIN cfg : cfg[i].value.length < CONFIG_MAX_VALUE}

KeysIn(cfg) == {cfg[i].key : i \in DOMAIN cfg}

-----------------------------------------------------------------------------
(* Induction in the form the provers can use: over a set.                  *)
LEMMA SetInduction ==
  ASSUME NEW S, 0 \in S, \A n \in Nat : n \in S => n + 1 \in S
  PROVE  Nat \subseteq S
  <1> DEFINE T == Nat \ S
  <1> SUFFICES ASSUME T # {} PROVE FALSE
    OBVIOUS
  <1>1. PICK m \in T : \A k \in T : ~ (<<k, m>> \in OpToRel(<, Nat))
    <2>1. IsWellFoundedOn(OpToRel(<, Nat), Nat)
      BY NatLessThanWellFounded
    <2>2. QED
      BY <2>1, WFMin
  <1>2. m \in Nat /\ m \notin S /\ m # 0
    OBVIOUS
  <1>3. m - 1 \in Nat /\ (m - 1) + 1 = m
    BY <1>2
  <1>4. m - 1 \in T
    BY <1>2, <1>3
  <1>5. <<m - 1, m>> \in OpToRel(<, Nat)
    BY <1>2, <1>3 DEF OpToRel
  <1>6. QED
    BY <1>1, <1>4, <1>5

(* A property that the empty text has and that one more line preserves, up *)
(* to the last, holds of the whole.                                        *)
LEMMA LineByLine ==
  ASSUME NEW N \in Nat, NEW S, 0 \in S, \A n \in 1..N : n - 1 \in S => n \in S
  PROVE  \A n \in 0..N : n \in S
  <1> DEFINE U == {n \in Nat : n <= N => n \in S}
  <1>1. 0 \in U
    OBVIOUS
  <1>2. \A n \in Nat : n \in U => n + 1 \in U
    <2> TAKE n \in Nat
    <2> HAVE n \in U
    <2>1. CASE n + 1 <= N
      <3>1. n + 1 \in 1..N /\ n \in S /\ (n + 1) - 1 = n
        BY <2>1
      <3>2. QED
        BY <3>1
    <2>2. CASE ~ (n + 1 <= N)
      BY <2>2
    <2>3. QED
      BY <2>1, <2>2
  <1> HIDE DEF U
  <1>3. Nat \subseteq U
    BY <1>1, <1>2, SetInduction
  <1>4. QED
    BY <1>3 DEF U

-----------------------------------------------------------------------------
(* The loop: how it starts, and what each line does.                       *)
LEMMA SetAllUnfolds ==
  ASSUME NEW cfg, NEW lines, Len(lines) \in Nat
  PROVE  \E after :
           /\ SetAll(cfg, lines) = after[Len(lines)]
           /\ after[0] = cfg
           /\ \A n \in 1..Len(lines) : after[n] = SetLine(after[n - 1], lines[n])
  <1> DEFINE after[n \in 0..Len(lines)] ==
               IF n = 0 THEN cfg ELSE SetLine(after[n - 1], lines[n])
             One(v, n) == SetLine(v, lines[n])
  <1>1. FiniteNatInductiveDefHypothesis(after, cfg, One, 0, Len(lines))
    BY DEF FiniteNatInductiveDefHypothesis
  <1>2. FiniteNatInductiveDefConclusion(after, cfg, One, 0, Len(lines))
    BY <1>1, FiniteNatInductiveDef
  <1>3. after = [n \in 0..Len(lines) |-> IF n = 0 THEN cfg ELSE SetLine(after[n - 1], lines[n])]
    BY <1>2 DEF FiniteNatInductiveDefConclusion
  <1>4. SetAll(cfg, lines) = after[Len(lines)]
    BY DEF SetAll
  <1> HIDE DEF after
  <1>5. QED
    BY <1>3, <1>4

-----------------------------------------------------------------------------
(* What a line does to a configuration.                                    *)
LEMMA Lengths ==
  /\ CONFIG_MAX_ENTRIES \in Nat /\ CONFIG_MAX_KEY \in Nat
  /\ CONFIG_MAX_VALUE \in Nat /\ CONFIG_MAX_VALUE - 1 \in Nat
  /\ CONFIG_MAX_VALUE - 1 < CONFIG_MAX_VALUE
  BY LimitsAssumption

LEMMA CutIsAValue ==
  ASSUME NEW v \in Values
  PROVE  /\ Cut(v) \in Values
         /\ Cut(v).length < CONFIG_MAX_VALUE
         /\ v.length < CONFIG_MAX_VALUE => Cut(v) = v
  <1>1. v.length \in Nat /\ v.text \in Texts /\ v = [text |-> v.text, length |-> v.length]
    BY DEF Values
  <1>2. Cut(v) = [text |-> v.text,
                  length |-> IF v.length < CONFIG_MAX_VALUE THEN v.length ELSE CONFIG_MAX_VALUE - 1]
    BY <1>1 DEF Cut
  <1>3. QED
    BY <1>1, <1>2, Lengths DEF Values

LEMMA NoiseIsNoEntry == Noise \notin Entries /\ Noise.key \notin Keys
  BY KeysAssumption DEF Noise, Entry, Entries

LEMMA EntryFields ==
  ASSUME NEW e \in Entries
  PROVE  /\ e.key \in Keys /\ e.value \in Values
         /\ e = Entry(e.key, e.value)
         /\ e # Noise
  BY NoiseIsNoEntry DEF Entries, Entry

LEMMA EntryIs ==
  ASSUME NEW k \in Keys, NEW v \in Values
  PROVE  /\ Entry(k, v) \in Entries
         /\ Entry(k, v).key = k /\ Entry(k, v).value = v
  BY DEF Entries, Entry

LEMMA ConfigIs ==
  ASSUME NEW cfg \in Configs
  PROVE  /\ cfg \in Seq(Entries)
         /\ Len(cfg) \in Nat /\ Len(cfg) <= CONFIG_MAX_ENTRIES /\ DOMAIN cfg = 1..Len(cfg)
         /\ \A i \in DOMAIN cfg :
              /\ cfg[i] \in Entries /\ cfg[i].key \in Keys /\ cfg[i].value \in Values
              /\ cfg[i].value.length < CONFIG_MAX_VALUE
         /\ \A i, j \in DOMAIN cfg : cfg[i].key = cfg[j].key => i = j
  <1>1. cfg \in Seq(Entries)
    BY DEF Configs
  <1>2. \A i \in DOMAIN cfg : cfg[i] \in Entries
    BY <1>1
  <1>3. QED
    BY <1>1, <1>2, EntryFields DEF Configs

(* A configuration says one thing of a key: GetStr finds what it holds.    *)
LEMMA GetStrFinds ==
  ASSUME NEW cfg \in Configs, NEW i \in DOMAIN cfg, NEW d
  PROVE  GetStr(cfg, cfg[i].key, d) = cfg[i].value
  <1> DEFINE F == Found(cfg, cfg[i].key)
  <1>1. F = {i} /\ i \in Nat
    BY ConfigIs DEF Found
  <1>2. Min(F) = i
    BY <1>1 DEF Min
  <1>3. QED
    BY <1>1, <1>2 DEF GetStr

LEMMA GetStrMisses ==
  ASSUME NEW cfg, NEW k, k \notin KeysIn(cfg), NEW d
  PROVE  GetStr(cfg, k, d) = d
  BY DEF GetStr, Found, KeysIn

(* Setting a key that is there changes its value, in its place.            *)
LEMMA SetStrOfOld ==
  ASSUME NEW cfg \in Configs, NEW e \in Entries, e.key \in KeysIn(cfg)
  PROVE  /\ SetStr(cfg, e) \in Configs
         /\ KeysIn(SetStr(cfg, e)) = KeysIn(cfg)
         /\ \A d : GetStr(SetStr(cfg, e), e.key, d) = Cut(e.value)
         /\ \A k, d : k # e.key => GetStr(SetStr(cfg, e), k, d) = GetStr(cfg, k, d)
  <1> DEFINE new == SetStr(cfg, e)
  <1>1. PICK i \in DOMAIN cfg : cfg[i].key = e.key
    BY DEF KeysIn
  <1>2. Found(cfg, e.key) = {i}
    BY <1>1, ConfigIs DEF Found
  <1>3. /\ DOMAIN new = DOMAIN cfg
        /\ new[i] = Entry(e.key, Cut(e.value))
        /\ \A j \in DOMAIN cfg : j # i => new[j] = cfg[j]
    BY <1>2 DEF SetStr
  <1>4. /\ new[i] \in Entries /\ new[i].key = e.key /\ new[i].value = Cut(e.value)
        /\ new[i].value.length < CONFIG_MAX_VALUE
    BY <1>3, EntryFields, CutIsAValue, EntryIs
  <1>5. \A j \in DOMAIN cfg : new[j] \in Entries /\ new[j].key = cfg[j].key
                              /\ new[j].value.length < CONFIG_MAX_VALUE
    BY <1>1, <1>3, <1>4, ConfigIs
  <1>6. new \in Seq(Entries) /\ Len(new) = Len(cfg)
    <2>1. new = [j \in 1..Len(cfg) |-> new[j]]
      BY <1>2, ConfigIs DEF SetStr
    <2>2. Len(cfg) \in Nat /\ DOMAIN cfg = 1..Len(cfg)
      BY ConfigIs
    <2> HIDE DEF new
    <2>3. new \in [1..Len(cfg) -> Entries]
      BY <1>5, <2>1, <2>2
    <2>4. new \in Seq(Entries)
      BY <2>2, <2>3, SeqDef
    <2>5. QED
      BY <2>2, <2>3, <2>4, LenProperties
  <1> HIDE DEF new
  <1>7. new \in Configs
    BY <1>3, <1>5, <1>6, ConfigIs DEF Configs
  <1>8. KeysIn(new) = KeysIn(cfg)
    BY <1>3, <1>5 DEF KeysIn
  <1>9. \A d : GetStr(new, e.key, d) = Cut(e.value)
    BY <1>1, <1>3, <1>4, <1>7, GetStrFinds
  <1>10. \A k, d : k # e.key => GetStr(new, k, d) = GetStr(cfg, k, d)
    <2> SUFFICES ASSUME NEW k, NEW d, k # e.key
                 PROVE  GetStr(new, k, d) = GetStr(cfg, k, d)
      OBVIOUS
    <2>1. CASE k \in KeysIn(cfg)
      <3>1. PICK j \in DOMAIN cfg : cfg[j].key = k
        BY <2>1 DEF KeysIn
      <3>2. j # i /\ new[j] = cfg[j] /\ j \in DOMAIN new
        BY <1>1, <1>3, <3>1
      <3>3. QED
        BY <1>7, <3>1, <3>2, GetStrFinds
    <2>2. CASE k \notin KeysIn(cfg)
      BY <1>8, <2>2, GetStrMisses
    <2>3. QED
      BY <2>1, <2>2
  <1>11. QED
    BY <1>7, <1>8, <1>9, <1>10 DEF new

(* Setting a new key appends it, if there is room.                         *)
LEMMA SetStrOfNew ==
  ASSUME NEW cfg \in Configs, NEW e \in Entries, e.key \notin KeysIn(cfg), Len(cfg) < CONFIG_MAX_ENTRIES
  PROVE  /\ SetStr(cfg, e) = Append(cfg, Entry(e.key, Cut(e.value)))
         /\ SetStr(cfg, e) \in Configs
         /\ KeysIn(SetStr(cfg, e)) = KeysIn(cfg) \cup {e.key}
         /\ \A d : GetStr(SetStr(cfg, e), e.key, d) = Cut(e.value)
         /\ \A k, d : k # e.key => GetStr(SetStr(cfg, e), k, d) = GetStr(cfg, k, d)
  <1> DEFINE x == Entry(e.key, Cut(e.value))
             new == Append(cfg, x)
             n == Len(cfg) + 1
  <1>1. SetStr(cfg, e) = new
    <2>1. Found(cfg, e.key) = {}
      BY DEF Found, KeysIn
    <2>2. QED
      BY <2>1, ConfigIs, Lengths DEF SetStr
  <1>2. /\ x \in Entries /\ x.key = e.key /\ x.value = Cut(e.value)
        /\ x.value.length < CONFIG_MAX_VALUE
    BY EntryFields, CutIsAValue, EntryIs
  <1> HIDE DEF x
  <1>3. /\ new \in Seq(Entries) /\ Len(new) = n /\ DOMAIN new = 1..n
        /\ n \in Nat /\ n <= CONFIG_MAX_ENTRIES
        /\ new[n] = x
        /\ \A j \in DOMAIN cfg : j \in DOMAIN new /\ j # n /\ new[j] = cfg[j]
        /\ \A j \in DOMAIN new : j # n => j \in DOMAIN cfg
    <2>1. cfg \in Seq(Entries) /\ Len(cfg) \in Nat /\ DOMAIN cfg = 1..Len(cfg)
      BY ConfigIs
    <2>2. /\ new \in Seq(Entries) /\ Len(new) = n
          /\ \A j \in 1..n : new[j] = IF j = n THEN x ELSE cfg[j]
      BY <1>2, <2>1, AppendProperties
    <2>3. DOMAIN new = 1..n
      BY <2>1, <2>2
    <2> HIDE DEF new
    <2>4. QED
      BY <2>1, <2>2, <2>3, Lengths
  <1> HIDE DEF new, n
  <1>4. KeysIn(new) = KeysIn(cfg) \cup {e.key}
    <2>1. n \in DOMAIN new
      BY <1>3, ConfigIs DEF n
    <2>2. KeysIn(new) \subseteq KeysIn(cfg) \cup {e.key}
      <3> SUFFICES ASSUME NEW j \in DOMAIN new PROVE new[j].key \in KeysIn(cfg) \cup {e.key}
        BY DEF KeysIn
      <3>1. QED
        BY <1>2, <1>3 DEF KeysIn
    <2>3. KeysIn(cfg) \subseteq KeysIn(new)
      BY <1>3 DEF KeysIn
    <2>4. e.key \in KeysIn(new)
      BY <1>2, <1>3, <2>1 DEF KeysIn
    <2>5. QED
      BY <2>2, <2>3, <2>4
  <1>5. new \in Configs
    <2>1. \A i \in DOMAIN new : new[i].value.length < CONFIG_MAX_VALUE
      BY <1>2, <1>3, ConfigIs
    <2>2. \A i \in DOMAIN cfg : cfg[i].key # x.key
      BY <1>2 DEF KeysIn
    <2>3. \A i, j \in DOMAIN new : new[i].key = new[j].key => i = j
      BY <1>3, <2>2, ConfigIs
    <2>4. QED
      BY <1>3, <2>1, <2>3 DEF Configs
  <1>6. \A d : GetStr(new, e.key, d) = Cut(e.value)
    <2>1. n \in DOMAIN new
      BY <1>3, ConfigIs DEF n
    <2>2. QED
      BY <1>2, <1>3, <1>5, <2>1, GetStrFinds
  <1>7. \A k, d : k # e.key => GetStr(new, k, d) = GetStr(cfg, k, d)
    <2> SUFFICES ASSUME NEW k, NEW d, k # e.key
                 PROVE  GetStr(new, k, d) = GetStr(cfg, k, d)
      OBVIOUS
    <2>1. CASE k \in KeysIn(cfg)
      <3>1. PICK j \in DOMAIN cfg : cfg[j].key = k
        BY <2>1 DEF KeysIn
      <3>2. new[j] = cfg[j] /\ j \in DOMAIN new
        BY <1>3, <3>1
      <3>3. QED
        BY <1>5, <3>1, <3>2, GetStrFinds
    <2>2. CASE k \notin KeysIn(cfg)
      BY <1>4, <2>2, GetStrMisses
    <2>3. QED
      BY <2>1, <2>2
  <1>8. QED
    BY <1>1, <1>4, <1>5, <1>6, <1>7 DEF new, x

(* And leaves a full configuration as it is.                               *)
LEMMA SetStrFull ==
  ASSUME NEW cfg \in Configs, NEW e \in Entries, e.key \notin KeysIn(cfg), Len(cfg) >= CONFIG_MAX_ENTRIES
  PROVE  SetStr(cfg, e) = cfg
  BY DEF SetStr, Found, KeysIn

(* In all cases what results is a configuration that has the keys it had.  *)
LEMMA SetLineKeeps ==
  ASSUME NEW cfg \in Configs, NEW line \in Lines
  PROVE  SetLine(cfg, line) \in Configs /\ KeysIn(cfg) \subseteq KeysIn(SetLine(cfg, line))
  <1>1. CASE line = Noise
    BY <1>1 DEF SetLine
  <1>2. CASE line # Noise
    <2>1. line \in Entries /\ SetLine(cfg, line) = SetStr(cfg, line)
      BY <1>2 DEF SetLine, Lines
    <2>2. CASE line.key \in KeysIn(cfg)
      BY <2>1, <2>2, SetStrOfOld
    <2>3. CASE line.key \notin KeysIn(cfg) /\ Len(cfg) < CONFIG_MAX_ENTRIES
      BY <2>1, <2>3, SetStrOfNew
    <2>4. CASE line.key \notin KeysIn(cfg) /\ ~ (Len(cfg) < CONFIG_MAX_ENTRIES)
      <3>1. Len(cfg) >= CONFIG_MAX_ENTRIES
        BY <2>4, ConfigIs, Lengths
      <3>2. QED
        BY <2>1, <2>4, <3>1, SetStrFull
    <2>5. QED
      BY <2>2, <2>3, <2>4
  <1>3. QED
    BY <1>1, <1>2

LEMMA SetAllKeeps ==
  ASSUME NEW cfg \in Configs, NEW lines \in Seq(Lines)
  PROVE  SetAll(cfg, lines) \in Configs /\ KeysIn(cfg) \subseteq KeysIn(SetAll(cfg, lines))
  <1> DEFINE N == Len(lines)
  <1>1. N \in Nat
    OBVIOUS
  <1>2. PICK after :
          /\ SetAll(cfg, lines) = after[N]
          /\ after[0] = cfg
          /\ \A n \in 1..N : after[n] = SetLine(after[n - 1], lines[n])
    BY <1>1, SetAllUnfolds
  <1> DEFINE S == {n \in 0..N : after[n] \in Configs /\ KeysIn(cfg) \subseteq KeysIn(after[n])}
  <1>3. 0 \in S
    BY <1>1, <1>2
  <1>4. \A n \in 1..N : n - 1 \in S => n \in S
    <2> TAKE n \in 1..N
    <2> HAVE n - 1 \in S
    <2>1. lines[n] \in Lines /\ n \in 0..N
      OBVIOUS
    <2>2. QED
      BY <1>2, <2>1, SetLineKeeps
  <1> HIDE DEF S
  <1>5. \A n \in 0..N : n \in S
    BY <1>1, <1>3, <1>4, LineByLine
  <1>6. N \in S
    BY <1>1, <1>5
  <1>7. QED
    BY <1>2, <1>6 DEF S

LEMMA OpenIsConfig ==
  ASSUME NEW lines \in Seq(Lines)
  PROVE  Open(lines) \in Configs
  <1>1. <<>> \in Configs
    BY Lengths DEF Configs
  <1>2. QED
    BY <1>1, SetAllKeeps DEF Open

-----------------------------------------------------------------------------
(* As long as there is room                                                *)

(* Keys that are told apart take one place each.                           *)
LEMMA OnePlaceEach ==
  ASSUME NEW cfg \in Configs
  PROVE  IsFiniteSet(KeysIn(cfg)) /\ Cardinality(KeysIn(cfg)) = Len(cfg)
  <1> DEFINE f == [i \in 1..Len(cfg) |-> cfg[i].key]
  <1>1. f \in Bijection(1..Len(cfg), KeysIn(cfg))
    <2>1. f \in [1..Len(cfg) -> KeysIn(cfg)]
      BY ConfigIs DEF KeysIn
    <2>2. f \in Surjection(1..Len(cfg), KeysIn(cfg))
      BY <2>1, ConfigIs DEF KeysIn, Surjection
    <2>3. f \in Injection(1..Len(cfg), KeysIn(cfg))
      BY <2>1, ConfigIs DEF Injection, IsInjective
    <2>4. QED
      BY <2>2, <2>3 DEF Bijection
  <1>2. ExistsBijection(1..Len(cfg), KeysIn(cfg)) /\ Len(cfg) \in Nat
    BY <1>1, ConfigIs DEF ExistsBijection
  <1>3. QED
    BY <1>2, FS_CountingElements, FS_NatBijection

LEMMA KeysOfAreFinite ==
  ASSUME NEW lines \in Seq(Lines)
  PROVE  IsFiniteSet(KeysOf(lines))
  <1> DEFINE D == {j \in DOMAIN lines : lines[j] # Noise}
  <1>1. IsFiniteSet(1..Len(lines)) /\ D \subseteq 1..Len(lines)
    BY FS_Interval
  <1>2. IsFiniteSet(D)
    BY <1>1, FS_Subset
  <1>3. [i \in D |-> lines[i].key] \in Surjection(D, KeysOf(lines))
    BY DEF Surjection, KeysOf
  <1>4. QED
    BY <1>2, <1>3, FS_Surjection

(* A key that is not yet there finds a place.                              *)
LEMMA RoomForAnother ==
  ASSUME NEW cfg \in Configs, NEW K, IsFiniteSet(K), Cardinality(K) <= CONFIG_MAX_ENTRIES,
         KeysIn(cfg) \subseteq K, NEW k \in K, k \notin KeysIn(cfg)
  PROVE  Len(cfg) < CONFIG_MAX_ENTRIES
  <1>1. KeysIn(cfg) # K /\ Cardinality(K) \in Nat /\ Cardinality(KeysIn(cfg)) \in Nat
    BY OnePlaceEach, FS_CardinalityType
  <1>2. Cardinality(KeysIn(cfg)) < Cardinality(K)
    BY <1>1, FS_Subset
  <1>3. Cardinality(K) \in Nat /\ Cardinality(KeysIn(cfg)) = Len(cfg)
    BY OnePlaceEach, FS_CardinalityType
  <1>4. QED
    BY <1>2, <1>3, ConfigIs, Lengths

(* One line, given room.                                                   *)
LEMMA SetLineReads ==
  ASSUME NEW cfg \in Configs, NEW line \in Lines,
         line = Noise \/ line.key \in KeysIn(cfg) \/ Len(cfg) < CONFIG_MAX_ENTRIES
  PROVE  /\ KeysIn(SetLine(cfg, line)) = KeysIn(cfg) \cup (IF line = Noise THEN {} ELSE {line.key})
         /\ \A k \in Keys : \A d :
              GetStr(SetLine(cfg, line), k, d) =
                IF line.key = k THEN Cut(line.value) ELSE GetStr(cfg, k, d)
  <1>1. CASE line = Noise
    <2>1. \A k \in Keys : line.key # k
      BY <1>1, KeysAssumption DEF Noise, Entry
    <2>2. QED
      BY <1>1, <2>1 DEF SetLine
  <1>2. CASE line # Noise
    <2>1. line \in Entries /\ SetLine(cfg, line) = SetStr(cfg, line)
      BY <1>2 DEF SetLine, Lines
    <2>2. CASE line.key \in KeysIn(cfg)
      BY <1>2, <2>1, <2>2, SetStrOfOld
    <2>3. CASE line.key \notin KeysIn(cfg) /\ Len(cfg) < CONFIG_MAX_ENTRIES
      BY <1>2, <2>1, <2>3, SetStrOfNew
    <2>4. QED
      BY <1>2, <2>2, <2>3
  <1>3. QED
    BY <1>1, <1>2

(* All lines, given room: of every key the last line counts.               *)
LEMMA SetAllReads ==
  ASSUME NEW cfg \in Configs, NEW lines \in Seq(Lines),
         Cardinality(KeysIn(cfg) \cup KeysOf(lines)) <= CONFIG_MAX_ENTRIES
  PROVE  /\ KeysIn(SetAll(cfg, lines)) = KeysIn(cfg) \cup KeysOf(lines)
         /\ \A k \in Keys : \A d :
              GetStr(SetAll(cfg, lines), k, d) =
                IF k \in KeysOf(lines)
                THEN Cut(lines[Max({i \in DOMAIN lines : lines[i].key = k})].value)
                ELSE GetStr(cfg, k, d)
  <1> DEFINE N == Len(lines)
             Upto(n) == {lines[i].key : i \in {j \in 1..n : lines[j] # Noise}}
             Last(k, i, n) == lines[i].key = k /\ \A j \in 1..n : j > i => lines[j].key # k
             All == KeysIn(cfg) \cup KeysOf(lines)
  <1>0. N \in Nat
    OBVIOUS
  <1>1. N \in Nat /\ DOMAIN lines = 1..N /\ \A n \in 1..N : lines[n] \in Lines
    OBVIOUS
  <1>2. PICK after :
          /\ SetAll(cfg, lines) = after[N]
          /\ after[0] = cfg
          /\ \A n \in 1..N : after[n] = SetLine(after[n - 1], lines[n])
    BY <1>0, SetAllUnfolds
  <1>3. IsFiniteSet(All) /\ Cardinality(All) <= CONFIG_MAX_ENTRIES
    BY OnePlaceEach, KeysOfAreFinite, FS_Union
  <1>4. Upto(0) = {} /\ Upto(N) = KeysOf(lines)
    BY <1>1 DEF KeysOf
  <1>5. \A n \in 1..N : /\ Upto(n) = Upto(n - 1) \cup (IF lines[n] = Noise THEN {} ELSE {lines[n].key})
                        /\ Upto(n) \subseteq KeysOf(lines)
    <2> TAKE n \in 1..N
    <2>1. n - 1 \in Nat /\ \A i \in Nat : i \in 1..n <=> i \in 1..(n - 1) \/ i = n
      BY <1>1
    <2>2. 1..n \subseteq DOMAIN lines
      BY <1>1
    <2>3. QED
      BY <2>1, <2>2 DEF KeysOf
  <1>6. \A k \in Keys, n \in 0..N : \A i \in 1..n : lines[i].key = k => k \in Upto(n)
    <2> TAKE k \in Keys, n \in 0..N
    <2> TAKE i \in 1..n
    <2> HAVE lines[i].key = k
    <2>1. lines[i] # Noise
      BY NoiseIsNoEntry
    <2>2. QED
      BY <2>1
  <1> DEFINE Good(n) ==
               /\ after[n] \in Configs
               /\ KeysIn(after[n]) = KeysIn(cfg) \cup Upto(n)
               /\ \A k \in Keys : \A d :
                    IF k \in Upto(n)
                    THEN \E i \in 1..n : Last(k, i, n) /\ GetStr(after[n], k, d) = Cut(lines[i].value)
                    ELSE GetStr(after[n], k, d) = GetStr(cfg, k, d)
             S == {n \in 0..N : Good(n)}
  <1>7. 0 \in S
    BY <1>1, <1>2, <1>4
  <1> HIDE DEF Good
  <1>8. \A n \in 1..N : n - 1 \in S => n \in S
    <2> SUFFICES ASSUME NEW n \in 1..N, Good(n - 1)
                 PROVE  Good(n)
      BY <1>0
    <2> USE DEF Good
    <2> DEFINE c == after[n - 1]
    <2>1. after[n] = SetLine(c, lines[n]) /\ lines[n] \in Lines /\ c \in Configs
      BY <1>1, <1>2
    <2>2. lines[n] = Noise \/ lines[n].key \in KeysIn(c) \/ Len(c) < CONFIG_MAX_ENTRIES
      <3> SUFFICES ASSUME lines[n] # Noise, lines[n].key \notin KeysIn(c)
                   PROVE  Len(c) < CONFIG_MAX_ENTRIES
        OBVIOUS
      <3>1. lines[n].key \in All /\ KeysIn(c) \subseteq All
        BY <1>5
      <3> HIDE DEF All, c
      <3>2. QED
        BY <1>3, <2>1, <3>1, RoomForAnother
    <2>3. after[n] \in Configs
      BY <2>1, SetLineKeeps
    <2>4. /\ KeysIn(after[n]) = KeysIn(c) \cup (IF lines[n] = Noise THEN {} ELSE {lines[n].key})
          /\ \A k \in Keys : \A d :
               GetStr(after[n], k, d) =
                 IF lines[n].key = k THEN Cut(lines[n].value) ELSE GetStr(c, k, d)
      <3> HIDE DEF c
      <3>1. QED
        BY <2>1, <2>2, SetLineReads
    <2>5. KeysIn(after[n]) = KeysIn(cfg) \cup Upto(n)
      BY <1>5, <2>4
    <2>6. ASSUME NEW k \in Keys, NEW d
          PROVE  IF k \in Upto(n)
                 THEN \E i \in 1..n : Last(k, i, n) /\ GetStr(after[n], k, d) = Cut(lines[i].value)
                 ELSE GetStr(after[n], k, d) = GetStr(cfg, k, d)
      <3>1. CASE lines[n].key = k
        <4>1. n \in 1..n /\ n \in 0..N /\ Last(k, n, n)
          BY <3>1
        <4>2. k \in Upto(n)
          BY <1>6, <3>1, <4>1
        <4>3. QED
          BY <2>4, <3>1, <4>1, <4>2
      <3>2. CASE lines[n].key # k
        <4>1. GetStr(after[n], k, d) = GetStr(c, k, d)
          BY <2>4, <3>2
        <4>2. k \in Upto(n) <=> k \in Upto(n - 1)
          BY <1>5, <3>2
        <4>3. CASE k \in Upto(n - 1)
          <5>1. PICK i \in 1..(n - 1) : Last(k, i, n - 1) /\ GetStr(c, k, d) = Cut(lines[i].value)
            BY <4>3
          <5>2. i \in 1..n /\ Last(k, i, n)
            BY <3>2, <5>1
          <5>3. QED
            BY <4>1, <4>2, <4>3, <5>1, <5>2
        <4>4. CASE k \notin Upto(n - 1)
          BY <4>1, <4>2, <4>4
        <4>5. QED
          BY <4>3, <4>4
      <3>3. QED
        BY <3>1, <3>2
    <2>7. QED
      BY <2>3, <2>5, <2>6
  <1> HIDE DEF S
  <1>9. \A n \in 0..N : n \in S
    BY <1>0, <1>7, <1>8, LineByLine
  <1>10. Good(N)
    BY <1>0, <1>9 DEF S
  <1>11. ASSUME NEW k \in Keys, NEW i \in 1..N, Last(k, i, N)
         PROVE  Max({j \in DOMAIN lines : lines[j].key = k}) = i
    <2> DEFINE T == {j \in DOMAIN lines : lines[j].key = k}
    <2>1. i \in T /\ \A j \in T : i >= j
      BY <1>1, <1>11
    <2>2. T \subseteq Nat
      BY <1>1
    <2> HIDE DEF T
    <2>3. \A x \in T : (\A y \in T : x >= y) => x = i
      BY <2>1, <2>2
    <2>4. Max(T) = i
      BY <2>1, <2>3 DEF Max
    <2>5. QED
      BY <2>4 DEF T
  <1>12. QED
    BY <1>2, <1>4, <1>10, <1>11 DEF Good

-----------------------------------------------------------------------------
(* What is read of a file that was written                                 *)

LEMMA SavedIsLines ==
  ASSUME NEW cfg \in Configs
  PROVE  /\ Save(cfg) \in Seq(Lines) /\ Len(Save(cfg)) = Len(cfg) + 1
         /\ Save(cfg)[1] = Noise
         /\ \A i \in DOMAIN cfg : Save(cfg)[i + 1] = cfg[i]
  <1>1. cfg \in Seq(Lines) /\ <<Noise>> \in Seq(Lines) /\ Len(<<Noise>>) = 1 /\ <<Noise>>[1] = Noise
    <2>1. cfg \in Seq(Entries) /\ Entries \subseteq Lines /\ Noise \in Lines
      BY ConfigIs DEF Lines
    <2>2. QED
      BY <2>1, SeqMonotonic
  <1>2. /\ Save(cfg) \in Seq(Lines) /\ Len(Save(cfg)) = 1 + Len(cfg)
        /\ \A i \in 1..(1 + Len(cfg)) :
             Save(cfg)[i] = IF i <= 1 THEN <<Noise>>[i] ELSE cfg[i - 1]
    BY <1>1, ConcatProperties DEF Save
  <1>3. Len(cfg) \in Nat /\ DOMAIN cfg = 1..Len(cfg)
    BY ConfigIs
  <1>4. \A i \in DOMAIN cfg : i + 1 \in 1..(1 + Len(cfg)) /\ ~ (i + 1 <= 1) /\ (i + 1) - 1 = i
    BY <1>3
  <1>5. QED
    BY <1>1, <1>2, <1>3, <1>4

(* The beginning of a configuration is one.                                *)
LEMMA Beginnings ==
  ASSUME NEW cfg \in Configs, NEW n \in 0..Len(cfg)
  PROVE  /\ SubSeq(cfg, 1, n) \in Configs
         /\ Len(SubSeq(cfg, 1, n)) = n
         /\ \A i \in 1..n : SubSeq(cfg, 1, n)[i] = cfg[i]
  <1> DEFINE c == SubSeq(cfg, 1, n)
  <1>1. cfg \in Seq(Entries) /\ Len(cfg) \in Nat /\ DOMAIN cfg = 1..Len(cfg) /\ n \in Nat
    BY ConfigIs
  <1>2. c \in Seq(Entries) /\ Len(c) = n /\ \A i \in 1..n : c[i] = cfg[i]
    BY <1>1
  <1>3. DOMAIN c = 1..n /\ 1..n \subseteq DOMAIN cfg
    BY <1>1, <1>2
  <1> HIDE DEF c
  <1>4. c \in Configs
    BY <1>1, <1>2, <1>3, ConfigIs, Lengths DEF Configs
  <1>5. QED
    BY <1>2, <1>4 DEF c

(* What is saved is what is opened: no key changes places, none is lost,   *)
(* and no value is cut a second time.                                      *)
THEOREM WhatIsSavedIsRead == \A cfg \in Configs : Open(Save(cfg)) = cfg
  <1> SUFFICES ASSUME NEW cfg \in Configs
               PROVE  Open(Save(cfg)) = cfg
    OBVIOUS
  <1> DEFINE N == Len(cfg) + 1
  <1>1. cfg \in Seq(Entries) /\ Len(cfg) \in Nat /\ DOMAIN cfg = 1..Len(cfg) /\ N \in Nat
    BY ConfigIs
  <1>2. PICK after :
          /\ Open(Save(cfg)) = after[N]
          /\ after[0] = <<>>
          /\ \A n \in 1..N : after[n] = SetLine(after[n - 1], Save(cfg)[n])
    <2>1. Len(Save(cfg)) = N
      BY SavedIsLines
    <2>2. QED
      BY <1>1, <2>1, SetAllUnfolds DEF Open
  <1> DEFINE Good(n) == n > 0 => after[n] = SubSeq(cfg, 1, n - 1)
             S == {n \in 0..N : Good(n)}
  <1>3. 0 \in S
    BY <1>1
  <1> HIDE DEF Good
  <1>4. \A n \in 1..N : n - 1 \in S => n \in S
    <2> SUFFICES ASSUME NEW n \in 1..N, Good(n - 1)
                 PROVE  after[n] = SubSeq(cfg, 1, n - 1)
      BY <1>1 DEF Good
    <2>1. CASE n = 1
      <3>1. after[n] = SetLine(<<>>, Noise)
        BY <1>1, <1>2, <2>1, SavedIsLines
      <3>2. SubSeq(cfg, 1, 0) = <<>>
        BY <1>1
      <3>3. QED
        BY <2>1, <3>1, <3>2 DEF SetLine
    <2>2. CASE n # 1
      <3> DEFINE m == n - 1
                 c == SubSeq(cfg, 1, m - 1)
      <3>1. m \in 1..Len(cfg) /\ m - 1 \in 0..Len(cfg) /\ m + 1 = n
        BY <1>1, <2>2
      <3>2. after[n] = SetLine(c, cfg[m])
        <4>1. after[m] = c
          BY <3>1 DEF Good
        <4>2. Save(cfg)[n] = cfg[m]
          BY <1>1, <3>1, SavedIsLines
        <4>3. QED
          BY <1>2, <4>1, <4>2
      <3> HIDE DEF m
      <3>3. /\ c \in Configs /\ Len(c) = m - 1 /\ DOMAIN c = 1..(m - 1)
            /\ \A i \in 1..(m - 1) : c[i] = cfg[i]
        <4>1. c \in Configs /\ Len(c) = m - 1 /\ \A i \in 1..(m - 1) : c[i] = cfg[i]
          BY <3>1, Beginnings
        <4>2. DOMAIN c = 1..Len(c)
          BY <4>1, ConfigIs
        <4>3. QED
          BY <4>1, <4>2
      <3> HIDE DEF c
      <3>4. /\ cfg[m] \in Entries /\ cfg[m] # Noise
            /\ Entry(cfg[m].key, Cut(cfg[m].value)) = cfg[m]
        BY <1>1, <3>1, ConfigIs, EntryFields, CutIsAValue
      <3>5. cfg[m].key \notin KeysIn(c)
        <4> SUFFICES ASSUME NEW i \in 1..(m - 1), c[i].key = cfg[m].key
                     PROVE  FALSE
          BY <3>3 DEF KeysIn
        <4>1. i \in DOMAIN cfg /\ m \in DOMAIN cfg /\ i # m /\ cfg[i].key = cfg[m].key
          BY <1>1, <3>1, <3>3
        <4>2. QED
          BY <4>1, ConfigIs
      <3>6. Len(c) < CONFIG_MAX_ENTRIES
        BY <1>1, <3>1, <3>3, ConfigIs, Lengths
      <3>7. after[n] = Append(c, cfg[m])
        BY <3>2, <3>3, <3>4, <3>5, <3>6, SetStrOfNew DEF SetLine
      <3>8. Append(SubSeq(cfg, 1, m - 1), cfg[m]) = SubSeq(cfg, 1, m)
        BY <1>1, <3>1
      <3>9. QED
        BY <3>7, <3>8 DEF c, m
    <2>3. QED
      BY <2>1, <2>2
  <1> HIDE DEF S
  <1>5. \A n \in 0..N : n \in S
    BY <1>1, <1>3, <1>4, LineByLine
  <1>6. after[N] = SubSeq(cfg, 1, Len(cfg))
    BY <1>1, <1>5 DEF S, Good
  <1>7. SubSeq(cfg, 1, Len(cfg)) = cfg
    BY <1>1
  <1>8. QED
    BY <1>2, <1>6, <1>7

(* A rewrite reads back as what was in memory when it was saved.           *)
LEMMA RewriteIs ==
  ASSUME NEW lines \in Seq(Lines), NEW entries \in Seq(Entries)
  PROVE  /\ SetAll(Open(lines), entries) \in Configs
         /\ Rewrite(lines, entries) = Save(SetAll(Open(lines), entries))
         /\ Open(Rewrite(lines, entries)) = SetAll(Open(lines), entries)
         /\ KeysIn(Open(lines)) \subseteq KeysIn(SetAll(Open(lines), entries))
  <1>1. entries \in Seq(Lines)
    BY SeqMonotonic DEF Lines
  <1>2. QED
    BY <1>1, OpenIsConfig, SetAllKeeps, WhatIsSavedIsRead DEF Rewrite

LEMMA KeysOfSaved ==
  ASSUME NEW cfg \in Configs
  PROVE  KeysOf(Save(cfg)) = KeysIn(cfg)
  <1> DEFINE s == Save(cfg)
  <1>1. s \in Seq(Lines) /\ Len(s) = Len(cfg) + 1 /\ s[1] = Noise /\ \A i \in DOMAIN cfg : s[i + 1] = cfg[i]
    BY SavedIsLines
  <1>2. Len(cfg) \in Nat /\ DOMAIN cfg = 1..Len(cfg) /\ \A i \in DOMAIN cfg : cfg[i] # Noise
    BY ConfigIs, EntryFields
  <1>3. DOMAIN s = 1..(Len(cfg) + 1)
    BY <1>1
  <1> HIDE DEF s
  <1>4. KeysOf(s) \subseteq KeysIn(cfg)
    <2> SUFFICES ASSUME NEW j \in DOMAIN s, s[j] # Noise
                 PROVE  s[j].key \in KeysIn(cfg)
      BY DEF KeysOf
    <2>1. j - 1 \in DOMAIN cfg /\ (j - 1) + 1 = j
      BY <1>1, <1>2, <1>3
    <2>2. s[j] = cfg[j - 1]
      BY <1>1, <2>1
    <2>3. QED
      BY <2>1, <2>2 DEF KeysIn
  <1>5. KeysIn(cfg) \subseteq KeysOf(s)
    <2> SUFFICES ASSUME NEW i \in DOMAIN cfg
                 PROVE  cfg[i].key \in KeysOf(s)
      BY DEF KeysIn
    <2>1. i + 1 \in DOMAIN s /\ s[i + 1] = cfg[i] /\ s[i + 1] # Noise
      BY <1>1, <1>2, <1>3
    <2>2. QED
      BY <2>1 DEF KeysOf
  <1>6. QED
    BY <1>4, <1>5 DEF s

(* A file that is rewritten without a change settles at the first time.    *)
THEOREM RewritingSettles == RewriteSettles(Seq(Lines))
  <1> SUFFICES ASSUME NEW lines \in Seq(Lines)
               PROVE  Rewrite(Rewrite(lines, <<>>), <<>>) = Rewrite(lines, <<>>)
    BY DEF RewriteSettles
  <1>1. \A cfg : SetAll(cfg, <<>>) = cfg
    <2> TAKE cfg
    <2>1. Len(<<>>) = 0
      OBVIOUS
    <2>2. QED
      BY <2>1, SetAllUnfolds
  <1>2. Open(lines) \in Configs
    BY OpenIsConfig
  <1>3. QED
    BY <1>1, <1>2, WhatIsSavedIsRead DEF Rewrite

(* No key that a file has is ever lost, not even from a full one.          *)
THEOREM OldKeysKept == FullKeepsOld(Seq(Lines), Seq(Entries))
  <1> SUFFICES ASSUME NEW lines \in Seq(Lines), NEW entries \in Seq(Entries),
                      NEW k \in KeysOf(Save(Open(lines)))
               PROVE  k \in KeysOf(Rewrite(lines, entries))
    BY DEF FullKeepsOld
  <1>1. QED
    BY RewriteIs, OpenIsConfig, KeysOfSaved

(* Every line the program writes is one it can read in one piece.          *)
THEOREM LinesFitBuffer == LineFits(Seq(Lines))
  <1> SUFFICES ASSUME NEW lines \in Seq(Lines), NEW i \in DOMAIN Open(lines)
               PROVE  (CONFIG_MAX_KEY - 1) + 1 + Open(lines)[i].value.length + 1
                        <= (CONFIG_MAX_KEY + CONFIG_MAX_VALUE + 4) - 1
    BY DEF LineFits
  <1>1. Open(lines)[i].value.length \in Nat /\ Open(lines)[i].value.length < CONFIG_MAX_VALUE
    BY OpenIsConfig, ConfigIs DEF Values
  <1>2. QED
    BY <1>1, Lengths

(* What a writer saved is read at the next launch, cut to what a buffer    *)
(* holds, and of the other writers' keys what was read before, for any     *)
(* file and any keys that together find room.                              *)
THEOREM OthersKept == RewriteKeepsOthers(Seq(Lines), Seq(Entries))
  <1> SUFFICES ASSUME NEW lines \in Seq(Lines), NEW entries \in Seq(Entries),
                      Cardinality(KeysOf(lines) \cup KeysOf(entries)) <= CONFIG_MAX_ENTRIES,
                      NEW k \in Keys
               PROVE  Read(Rewrite(lines, entries), k) =
                        IF k \in KeysOf(entries)
                        THEN Cut(entries[Max({i \in DOMAIN entries : entries[i].key = k})].value)
                        ELSE Read(lines, k)
    BY DEF RewriteKeepsOthers
  <1>1. entries \in Seq(Lines)
    BY SeqMonotonic DEF Lines
  <1>2. KeysIn(Open(lines)) = KeysOf(lines)
    <2>1. <<>> \in Configs /\ KeysIn(<<>>) = {}
      BY Lengths DEF Configs, KeysIn
    <2>2. Cardinality(KeysOf(lines)) <= CONFIG_MAX_ENTRIES
      <3>1. IsFiniteSet(KeysOf(lines) \cup KeysOf(entries))
        BY <1>1, KeysOfAreFinite, FS_Union
      <3>2. /\ Cardinality(KeysOf(lines)) <= Cardinality(KeysOf(lines) \cup KeysOf(entries))
            /\ Cardinality(KeysOf(lines)) \in Nat
            /\ Cardinality(KeysOf(lines) \cup KeysOf(entries)) \in Nat
        BY <3>1, FS_Subset, FS_CardinalityType, KeysOfAreFinite
      <3>3. QED
        BY <3>2, Lengths
    <2>3. KeysIn(<<>>) \cup KeysOf(lines) = KeysOf(lines)
      BY <2>1
    <2>4. QED
      BY <2>1, <2>2, <2>3, SetAllReads DEF Open
  <1>3. \A d : GetStr(SetAll(Open(lines), entries), k, d) =
                IF k \in KeysOf(entries)
                THEN Cut(entries[Max({i \in DOMAIN entries : entries[i].key = k})].value)
                ELSE GetStr(Open(lines), k, d)
    <2> DEFINE c == Open(lines)
    <2>1. c \in Configs /\ Cardinality(KeysIn(c) \cup KeysOf(entries)) <= CONFIG_MAX_ENTRIES
      BY <1>2, OpenIsConfig
    <2> HIDE DEF c
    <2>2. \A key \in Keys : \A d :
            GetStr(SetAll(c, entries), key, d) =
              IF key \in KeysOf(entries)
              THEN Cut(entries[Max({i \in DOMAIN entries : entries[i].key = key})].value)
              ELSE GetStr(c, key, d)
      BY <1>1, <2>1, SetAllReads
    <2>3. QED
      BY <2>2 DEF c
  <1>4. QED
    BY <1>3, RewriteIs DEF Read
=============================================================================
