------------------------- MODULE ConfigSourcesProofs -------------------------
(***************************************************************************)
(* The precedence of the configuration files, for every set of files and   *)
(* every length of the command line.                                       *)
(***************************************************************************)
EXTENDS ConfigSources, SequenceTheorems, WellFoundedInduction, TLAPS

(* The inputs, and what the flags of the first pass collect from them. *)
TypeInv ==
    /\ cmdArgs \in Seq(Arguments)
    /\ environ.config \in Seq(Files)
    /\ configs \in Seq(Files)
    /\ next \in Nat \ {0}
    /\ mapSrcs \in Seq(Files \cup {System})

(* The files loaded so far, in order, behind the system file if it is one. *)
LoadInv ==
    /\ stage \in {"parse", "system"} => mapSrcs = << >>
    /\ stage = "system" => next = 1
    /\ stage = "user" =>
          \E s \in {0, 1} :
             /\ next <= Len(configs) + 1
             /\ Len(mapSrcs) = s + next - 1
             /\ \A k \in 1 .. next - 1 : mapSrcs[s + k] = configs[k]
             /\ s = 1 => mapSrcs[1] = System

(* The chain of the real command line: the last file listed comes first. *)
ChainInv ==
    stage \in {"resolve", "done"} =>
        \E s \in {0, 1} :
           /\ Len(mapSrcs) = s + Len(configs)
           /\ \A k \in 1 .. Len(configs) : mapSrcs[Len(configs) + 1 - k] = configs[k]
           /\ s = 1 => mapSrcs[Len(configs) + 1] = System

ValueInv == stage = "done" => value \in {"cli", "env", ChainLookup}

Inv == TypeInv /\ LoadInv /\ ChainInv /\ ValueInv

-----------------------------------------------------------------------------
(* Lemmas about the operators. *)

(* A set of natural numbers that is not empty has a least element. *)
LEMMA MinProperty ==
    ASSUME NEW S \in SUBSET Nat, S # {}
    PROVE  Min(S) \in S /\ \A y \in S : Min(S) <= y
<1>1. PICK x \in S : \A y \in S : ~(<<y, x>> \in OpToRel(<, Nat))
  BY NatLessThanWellFounded, WFMin
<1>2. \A y \in S : ~(<<y, x>> \in {ss \in Nat \X Nat : ss[1] < ss[2]})
  BY <1>1, Zenon DEF OpToRel
<1>3. S \subseteq Nat
  OBVIOUS
<1>4. ASSUME NEW y \in S PROVE x <= y
  <2>1. x \in Nat /\ y \in Nat
    BY <1>3
  <2>2. ~(y < x)
    BY <1>2, <2>1
  <2> QED
    BY <2>1, <2>2
<1> QED
  BY <1>4 DEF Min

(* The greatest element, when one is known. *)
LEMMA MaxProperty ==
    ASSUME NEW S \in SUBSET Nat, NEW x \in S, \A y \in S : y <= x
    PROVE  Max(S) = x
<1>1. Max(S) \in S /\ \A y \in S : Max(S) >= y
  BY DEF Max
<1>2. S \subseteq Nat
  OBVIOUS
<1>3. Max(S) \in Nat /\ x \in Nat /\ Max(S) >= x /\ Max(S) <= x
  BY <1>1, <1>2
<1> QED
  BY <1>3

(* The chain takes the first file that sets the option, or the default. *)
LEMMA ChainLookupFirst ==
    ASSUME mapSrcs \in Seq(Files \cup {System})
    PROVE  \/ /\ ChainLookup = "default"
              /\ \A k \in 1 .. Len(mapSrcs) : mapSrcs[k] \notin setters
           \/ \E i \in 1 .. Len(mapSrcs) :
                 /\ ChainLookup = mapSrcs[i] /\ mapSrcs[i] \in setters
                 /\ \A k \in 1 .. i - 1 : mapSrcs[k] \notin setters
<1> DEFINE I == {i \in 1 .. Len(mapSrcs) : mapSrcs[i] \in setters}
<1>1. ChainLookup = LET i == IF I # {} THEN Min(I) ELSE 0
                    IN  IF i = 0 THEN "default" ELSE mapSrcs[i]
  BY DEF ChainLookup, SelectInSeq
<1>2. CASE I # {}
  <2>1. I \in SUBSET Nat
    OBVIOUS
  <2> DEFINE m == Min(I)
  <2>2. m \in I /\ \A y \in I : m <= y
    <3> HIDE DEF I
    <3> QED
      BY <1>2, <2>1, MinProperty
  <2>3. ChainLookup = mapSrcs[m]
    BY <1>1, <1>2, <2>2
  <2> HIDE DEF m
  <2>4. \A k \in 1 .. m - 1 : mapSrcs[k] \notin setters
    BY <2>2
  <2> QED
    BY <2>2, <2>3, <2>4
<1>3. CASE I = {}
  BY <1>1, <1>3
<1> QED
  BY <1>2, <1>3

(* Precedence follows from the order of the chain. *)
LEMMA InvPrecedence == Inv => Precedence
<1> SUFFICES ASSUME Inv, stage = "done", value = ChainLookup PROVE Precedence
  BY DEF Inv, ValueInv, Precedence
<1> DEFINE n == Len(configs)
           Users == {k \in 1 .. Len(configs) : configs[k] \in setters}
<1>1. PICK s \in {0, 1} :
           /\ Len(mapSrcs) = s + n
           /\ \A k \in 1 .. n : mapSrcs[n + 1 - k] = configs[k]
           /\ s = 1 => mapSrcs[n + 1] = System
  BY DEF Inv, ChainInv
<1>2. /\ mapSrcs \in Seq(Files \cup {System}) /\ configs \in Seq(Files)
      /\ n \in Nat /\ DOMAIN mapSrcs = 1 .. Len(mapSrcs)
  BY DEF Inv, TypeInv
<1>3. \A i \in 1 .. n : n + 1 - i \in 1 .. n /\ mapSrcs[i] = configs[n + 1 - i]
  <2> TAKE i \in 1 .. n
  <2>1. n + 1 - i \in 1 .. n /\ n + 1 - (n + 1 - i) = i
    BY <1>2
  <2> QED
    BY <1>1, <2>1
<1>4. System \in ToSet(mapSrcs) <=> s = 1
  <2>1. \A i \in 1 .. n : mapSrcs[i] # System
    BY <1>2, <1>3, FilesAssumption
  <2> QED
    BY <1>1, <1>2, <2>1 DEF ToSet
<1>5. CASE /\ ChainLookup = "default"
           /\ \A k \in 1 .. Len(mapSrcs) : mapSrcs[k] \notin setters
  <2>1. Users = {}
    <3> SUFFICES ASSUME NEW k \in 1 .. n PROVE configs[k] \notin setters
      OBVIOUS
    <3>1. n + 1 - k \in 1 .. Len(mapSrcs)
      BY <1>1, <1>2
    <3> QED
      BY <1>1, <1>5, <3>1
  <2>2. s = 1 => System \notin setters
    BY <1>1, <1>2, <1>5
  <2> QED
    BY <1>4, <1>5, <2>1, <2>2 DEF Precedence
<1>6. ASSUME NEW i \in 1 .. Len(mapSrcs),
             ChainLookup = mapSrcs[i], mapSrcs[i] \in setters,
             \A k \in 1 .. i - 1 : mapSrcs[k] \notin setters
      PROVE  Precedence
  <2>1. CASE i \in 1 .. n
    <3> DEFINE m == n + 1 - i
    <3>1. m \in Users /\ configs[m] = mapSrcs[i]
      BY <1>3, <1>6, <2>1
    <3>2. ASSUME NEW y \in Users PROVE y <= m
      <4>1. y \in 1 .. n /\ mapSrcs[n + 1 - y] \in setters
        BY <1>1, <3>2
      <4>2. n + 1 - y \notin 1 .. i - 1
        BY <1>6, <4>1
      <4> QED
        BY <1>2, <2>1, <4>1, <4>2
    <3>3. Max(Users) = m
      BY <3>1, <3>2, MaxProperty
    <3> QED
      BY <1>6, <3>1, <3>3 DEF Precedence
  <2>2. CASE i \notin 1 .. n
    <3>1. i = n + 1 /\ s = 1
      BY <1>1, <1>2, <2>2
    <3>2. ChainLookup = System /\ System \in setters
      BY <1>1, <1>6, <3>1
    <3>3. Users = {}
      <4> SUFFICES ASSUME NEW k \in 1 .. n PROVE configs[k] \notin setters
        OBVIOUS
      <4>1. n + 1 - k \in 1 .. i - 1
        BY <1>2, <3>1
      <4> QED
        BY <1>1, <1>6, <4>1
    <3> QED
      BY <1>4, <3>1, <3>2, <3>3 DEF Precedence
  <2> QED
    BY <2>1, <2>2
<1> QED
  BY <1>2, <1>5, <1>6, ChainLookupFirst

-----------------------------------------------------------------------------
(* The invariant holds initially and is kept by every step. *)

LEMMA InitInv == Init => Inv
<1> SUFFICES ASSUME Init PROVE Inv
  OBVIOUS
<1>1. cmdArgs \in Seq(Arguments)
  BY DEF Init, SeqOf
<1>2. environ.config \in Seq(Files)
  <2>1. environ.config = << >> \/ \E f \in Files : environ.config = <<f>>
    BY DEF Init
  <2>2. << >> \in Seq(Files) /\ \A f \in Files : <<f>> \in Seq(Files)
    OBVIOUS
  <2> QED
    BY <2>1, <2>2
<1>3. configs = << >> /\ mapSrcs = << >> /\ next = 1 /\ stage = "parse"
  BY DEF Init
<1> QED
  BY <1>1, <1>2, <1>3 DEF Inv, TypeInv, LoadInv, ChainInv, ValueInv

(* The first pass, which loads nothing. *)
LEMMA ParseInv ==
    ASSUME Inv, ParseConfig \/ ParseNoDefaults \/ ParseWord \/ ParseUnknown \/ PostParse
    PROVE  Inv'
<1>1. stage = "parse" /\ stage' \in {"parse", "system"} /\ UNCHANGED <<inputs, mapSrcs>>
  BY DEF ParseConfig, ParseNoDefaults, ParseWord, ParseUnknown, PostParse, Parsing
<1>2. next' \in Nat \ {0} /\ (stage' = "system" => next' = 1)
  BY DEF ParseConfig, ParseNoDefaults, ParseWord, ParseUnknown, PostParse, Parsing, Inv, TypeInv
<1>3. configs' \in Seq(Files)
  <2> USE DEF Inv, TypeInv
  <2>1. CASE ParseConfig
    <3>1. cmdArgs[next] \in Arguments /\ cmdArgs[next].kind = "config"
      BY <2>1 DEF ParseConfig, Parsing
    <3>2. cmdArgs[next].file \in Files
      BY <3>1 DEF Arguments
    <3> QED
      BY <2>1, <3>2 DEF ParseConfig
  <2>2. CASE ParseNoDefaults \/ ParseWord \/ ParseUnknown
    BY <2>2 DEF ParseNoDefaults, ParseWord, ParseUnknown
  <2>3. CASE PostParse
    BY <2>3 DEF PostParse
  <2> QED
    BY <2>1, <2>2, <2>3
<1>4. TypeInv'
  BY <1>1, <1>2, <1>3 DEF Inv, TypeInv, inputs
<1>5. LoadInv' /\ ChainInv' /\ ValueInv'
  BY <1>1, <1>2 DEF Inv, LoadInv, ChainInv, ValueInv
<1> QED
  BY <1>4, <1>5 DEF Inv

(* The system file is the first one loaded, or is not loaded. *)
LEMMA SystemInv ==
    ASSUME Inv, SkipSystem \/ LoadSystem
    PROVE  Inv'
<1>1. /\ stage = "system" /\ stage' = "user" /\ next = 1 /\ mapSrcs = << >>
      /\ UNCHANGED <<inputs, next, configs>>
  BY DEF SkipSystem, LoadSystem, Inv, LoadInv
<1>2. mapSrcs' = << >> \/ mapSrcs' = <<System>>
  BY <1>1 DEF SkipSystem, LoadSystem
<1>3. TypeInv'
  <2>1. << >> \in Seq(Files \cup {System}) /\ <<System>> \in Seq(Files \cup {System})
    OBVIOUS
  <2>2. mapSrcs' \in Seq(Files \cup {System})
    BY <1>2, <2>1
  <2> QED
    BY <1>1, <2>2 DEF Inv, TypeInv, inputs
<1>4. LoadInv'
  <2>1. configs' \in Seq(Files) /\ Len(configs') \in Nat
    BY <1>3 DEF TypeInv
  <2>2. CASE mapSrcs' = << >>
    <3>1. /\ Len(mapSrcs') = 0 + next' - 1
          /\ \A k \in 1 .. next' - 1 : mapSrcs'[0 + k] = configs'[k]
      BY <1>1, <2>2
    <3> QED
      BY <1>1, <2>1, <3>1 DEF LoadInv
  <2>3. CASE mapSrcs' = <<System>>
    <3>1. /\ Len(mapSrcs') = 1 + next' - 1 /\ mapSrcs'[1] = System
          /\ \A k \in 1 .. next' - 1 : mapSrcs'[1 + k] = configs'[k]
      BY <1>1, <2>3
    <3> QED
      BY <1>1, <2>1, <3>1 DEF LoadInv
  <2> QED
    BY <1>2, <2>2, <2>3
<1>5. ChainInv' /\ ValueInv'
  BY <1>1 DEF ChainInv, ValueInv
<1> QED
  BY <1>3, <1>4, <1>5 DEF Inv

LEMMA LoadUserInv ==
    ASSUME Inv, LoadUser
    PROVE  Inv'
<1>1. /\ stage = "user" /\ next <= Len(configs)
      /\ mapSrcs' = Append(mapSrcs, configs[next]) /\ next' = next + 1
      /\ UNCHANGED <<inputs, stage, configs>>
  BY DEF LoadUser
<1>2. /\ mapSrcs \in Seq(Files \cup {System}) /\ configs \in Seq(Files)
      /\ Len(configs) \in Nat /\ next \in 1 .. Len(configs)
  BY <1>1 DEF Inv, TypeInv
<1>3. TypeInv'
  BY <1>1, <1>2 DEF Inv, TypeInv, inputs
<1>4. LoadInv'
  <2>1. PICK s \in {0, 1} :
           /\ Len(mapSrcs) = s + next - 1
           /\ \A k \in 1 .. next - 1 : mapSrcs[s + k] = configs[k]
           /\ s = 1 => mapSrcs[1] = System
    BY <1>1 DEF Inv, LoadInv
  <2>2. /\ Len(mapSrcs') = Len(mapSrcs) + 1
        /\ mapSrcs'[Len(mapSrcs) + 1] = configs[next]
        /\ \A i \in 1 .. Len(mapSrcs) : mapSrcs'[i] = mapSrcs[i]
    BY <1>1, <1>2
  <2>3. \A k \in 1 .. next' - 1 : mapSrcs'[s + k] = configs[k]
    <3> TAKE k \in 1 .. next' - 1
    <3>1. CASE k = next
      <4>1. s + k = Len(mapSrcs) + 1
        BY <1>2, <2>1, <3>1
      <4> QED
        BY <2>2, <3>1, <4>1
    <3>2. CASE k \in 1 .. next - 1
      <4>1. s + k \in 1 .. Len(mapSrcs)
        BY <1>2, <2>1, <3>2
      <4> QED
        BY <2>1, <2>2, <3>2, <4>1
    <3>3. k = next \/ k \in 1 .. next - 1
      <4>1. next' = next + 1 /\ next \in Nat
        BY <1>1, <1>2
      <4>2. k \in 1 .. (next + 1) - 1
        BY <4>1
      <4> QED
        BY <4>1, <4>2
    <3> QED
      BY <3>1, <3>2, <3>3
  <2>4. s = 1 => mapSrcs'[1] = System
    BY <1>2, <2>1, <2>2
  <2>5. Len(mapSrcs') = s + next' - 1 /\ next' <= Len(configs') + 1
    BY <1>1, <1>2, <2>1, <2>2
  <2> QED
    BY <1>1, <2>3, <2>4, <2>5 DEF LoadInv
<1>5. ChainInv' /\ ValueInv'
  BY <1>1 DEF ChainInv, ValueInv
<1> QED
  BY <1>3, <1>4, <1>5 DEF Inv

(* slices.Reverse puts the last file first, and the system file last. *)
LEMMA LoadedInv ==
    ASSUME Inv, Loaded
    PROVE  Inv'
<1>1. /\ stage = "user" /\ next > Len(configs) /\ stage' = "resolve"
      /\ mapSrcs' = Reverse(mapSrcs) /\ UNCHANGED <<inputs, next, configs>>
  BY DEF Loaded, SourceOrder
<1>2. /\ mapSrcs \in Seq(Files \cup {System}) /\ configs \in Seq(Files)
      /\ Len(configs) \in Nat /\ Len(mapSrcs) \in Nat
  BY DEF Inv, TypeInv
<1>3. /\ mapSrcs' \in Seq(Files \cup {System})
      /\ Len(mapSrcs') = Len(mapSrcs)
      /\ \A i \in 1 .. Len(mapSrcs) : mapSrcs'[i] = mapSrcs[(Len(mapSrcs) - i) + 1]
  <2>1. \A i \in 1 .. Len(mapSrcs) : mapSrcs[(Len(mapSrcs) - i) + 1] \in Files \cup {System}
    BY <1>2
  <2> QED
    BY <1>1, <1>2, <2>1 DEF Reverse
<1>4. TypeInv'
  BY <1>1, <1>3 DEF Inv, TypeInv, inputs
<1>5. ChainInv'
  <2>1. PICK s \in {0, 1} :
           /\ next <= Len(configs) + 1
           /\ Len(mapSrcs) = s + next - 1
           /\ \A k \in 1 .. next - 1 : mapSrcs[s + k] = configs[k]
           /\ s = 1 => mapSrcs[1] = System
    BY <1>1 DEF Inv, LoadInv
  <2>2. next = Len(configs) + 1
    BY <1>1, <1>2, <2>1 DEF Inv, TypeInv
  <2>3. Len(mapSrcs) = s + Len(configs)
    BY <1>2, <2>1, <2>2
  <2>4. \A k \in 1 .. Len(configs) : mapSrcs'[Len(configs) + 1 - k] = configs[k]
    <3> TAKE k \in 1 .. Len(configs)
    <3>1. /\ Len(configs) + 1 - k \in 1 .. Len(mapSrcs)
          /\ (Len(mapSrcs) - (Len(configs) + 1 - k)) + 1 = s + k
      BY <1>2, <2>3
    <3> QED
      BY <1>2, <1>3, <2>1, <2>2, <3>1
  <2>5. s = 1 => mapSrcs'[Len(configs) + 1] = System
    <3>1. s = 1 => /\ Len(configs) + 1 \in 1 .. Len(mapSrcs)
                   /\ (Len(mapSrcs) - (Len(configs) + 1)) + 1 = 1
      BY <1>2, <2>3
    <3> QED
      BY <1>3, <2>1, <3>1
  <2> QED
    BY <1>1, <1>3, <2>3, <2>4, <2>5 DEF ChainInv
<1>6. LoadInv' /\ ValueInv'
  BY <1>1 DEF LoadInv, ValueInv
<1> QED
  BY <1>4, <1>5, <1>6 DEF Inv

LEMMA NextInv == Inv /\ [Next]_vars => Inv'
<1> SUFFICES ASSUME Inv, [Next]_vars PROVE Inv'
  OBVIOUS
<1>1. CASE \E inEnv \in BOOLEAN : Resolve(inEnv)
  <2>1. /\ stage = "resolve" /\ stage' = "done"
        /\ value' \in {"cli", "env", ChainLookup}
        /\ UNCHANGED <<inputs, next, configs, mapSrcs>>
    BY <1>1 DEF Resolve
  <2>2. ChainLookup' = ChainLookup
    BY <2>1 DEF ChainLookup, SelectInSeq, inputs
  <2> QED
    BY <2>1, <2>2 DEF Inv, TypeInv, LoadInv, ChainInv, ValueInv, inputs
<1>2. CASE LoadFails \/ OptionRefused
  BY <1>2 DEF LoadFails, OptionRefused, Inv, TypeInv, LoadInv, ChainInv, ValueInv, inputs
<1>3. CASE UNCHANGED vars
  <2>1. ChainLookup' = ChainLookup
    BY <1>3 DEF ChainLookup, SelectInSeq, vars, inputs
  <2> QED
    BY <1>3, <2>1 DEF Inv, TypeInv, LoadInv, ChainInv, ValueInv, vars, inputs
<1> QED
  BY <1>1, <1>2, <1>3, ParseInv, SystemInv, LoadUserInv, LoadedInv DEF Next, Ended

(* The invariant holds of every reachable state. *)
THEOREM Invariance == Spec => []Inv
  BY InitInv, NextInv, PTL DEF Spec

(* bootstrap.Run and flagSources: among the files, the last one listed     *)
(* that sets an option wins, then the system file, then the default,       *)
(* however many --config the command line has.                             *)
THEOREM LastFileWins == Spec => []Precedence
  BY Invariance, InvPrecedence, PTL
=============================================================================
