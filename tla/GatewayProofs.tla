----------------------------- MODULE GatewayProofs -----------------------------
(***************************************************************************)
(* What is proved of the tools the gateway exposes: of their names         *)
(* (Namespace), of the tool registry and its index (ToolRegistry), of what *)
(* clients list and call (Disclosure), and of the runtime that fills the   *)
(* registries (GatewayRuntime); for any servers, tools, lists and clients. *)
(***************************************************************************)
EXTENDS Disclosure, GatewayRuntime, SequenceTheorems, WellFoundedInduction, TLAPS

-----------------------------------------------------------------------------
(* Names: formatting and parsing, for names of any length over any         *)
(* characters                                                              *)

\* The characters of the separator are characters of a name.
Characters(C) == C \cup {Underscore}

(* What an exposed name looks like, character by character.               *)
LEMMA Formatted ==
  ASSUME NEW C, NEW s \in Seq(Characters(C)), NEW t \in Seq(Characters(C))
  PROVE  LET e == FormatExposedName(s, t) IN
         /\ e \in Seq(Characters(C))
         /\ Len(e) = Len(s) + 2 + Len(t)
         /\ \A i \in 1 .. Len(s) : e[i] = s[i]
         /\ e[Len(s) + 1] = Underscore /\ e[Len(s) + 2] = Underscore
         /\ \A i \in 1 .. Len(t) : e[Len(s) + 2 + i] = t[i]
<1> DEFINE D == Characters(C)
           h == s \o Separator
<1>1. Separator \in Seq(D) /\ Len(Separator) = 2
      /\ Separator[1] = Underscore /\ Separator[2] = Underscore
  BY DEF Separator, Characters
<1>2. Len(s) \in Nat /\ Len(t) \in Nat
  BY LenProperties
<1>3. /\ h \in Seq(D)
      /\ Len(h) = Len(s) + 2
      /\ \A i \in 1 .. Len(s) + 2 :
           h[i] = IF i <= Len(s) THEN s[i] ELSE Separator[i - Len(s)]
  <2>1. /\ h \in Seq(D)
        /\ Len(h) = Len(s) + Len(Separator)
        /\ \A i \in 1 .. Len(s) + Len(Separator) :
             h[i] = IF i <= Len(s) THEN s[i] ELSE Separator[i - Len(s)]
    BY <1>1, ConcatProperties
  <2> QED
    BY <1>1, <2>1
<1>4. /\ h \o t \in Seq(D)
      /\ Len(h \o t) = Len(h) + Len(t)
      /\ \A i \in 1 .. Len(h) + Len(t) :
           (h \o t)[i] = IF i <= Len(h) THEN h[i] ELSE t[i - Len(h)]
  BY <1>3, ConcatProperties
<1>5. FormatExposedName(s, t) = h \o t
  BY DEF FormatExposedName
<1> HIDE DEF h
<1>6. \A i \in 1 .. Len(s) : (h \o t)[i] = s[i]
  BY <1>2, <1>3, <1>4
<1>7. (h \o t)[Len(s) + 1] = Underscore /\ (h \o t)[Len(s) + 2] = Underscore
  BY <1>1, <1>2, <1>3, <1>4
<1>8. \A i \in 1 .. Len(t) : (h \o t)[Len(s) + 2 + i] = t[i]
  BY <1>2, <1>3, <1>4
<1>9. QED
  BY <1>3, <1>4, <1>5, <1>6, <1>7, <1>8

(* The first separator of an exposed name is the one that was put there:  *)
(* the server's name has none, and does not lend it a character.          *)
LEMMA SeparatorFound ==
  ASSUME NEW C, NEW s \in Seq(Characters(C)), NEW t \in Seq(Characters(C)),
         ValidServerName(s), s[Len(s)] # Underscore
  PROVE  /\ SeparatorsIn(FormatExposedName(s, t)) # {}
         /\ FirstSeparator(FormatExposedName(s, t)) = Len(s) + 1
<1> DEFINE e == FormatExposedName(s, t)
           k == Len(s) + 1
<1>0. Len(s) \in Nat \ {0} /\ Len(t) \in Nat
  BY LenProperties, EmptySeq DEF ValidServerName
<1>1. /\ Len(e) = Len(s) + 2 + Len(t)
      /\ \A i \in 1 .. Len(s) : e[i] = s[i]
      /\ e[k] = Underscore /\ e[k + 1] = Underscore
  BY <1>0, Formatted
<1> HIDE DEF e
<1>2. k \in SeparatorsIn(e)
  BY <1>0, <1>1 DEF SeparatorsIn
<1>3. \A i \in SeparatorsIn(e) : k <= i
  <2> SUFFICES ASSUME NEW i \in SeparatorsIn(e), i < k
               PROVE  FALSE
    BY <1>0, <1>1 DEF SeparatorsIn
  <2>1. i \in 1 .. Len(s) /\ e[i] = Underscore /\ e[i + 1] = Underscore
    BY <1>0, <1>1 DEF SeparatorsIn
  <2>2. s[i] = Underscore
    BY <2>1, <1>1
  <2>3. CASE i = Len(s)
    BY <2>2, <2>3
  <2>4. CASE i < Len(s)
    <3>1. s[i + 1] = Underscore
      BY <2>1, <2>4, <1>0, <1>1
    <3>2. i \in SeparatorsIn(s)
      BY <2>1, <2>2, <2>4, <3>1, <1>0 DEF SeparatorsIn
    <3> QED
      BY <3>2 DEF ValidServerName
  <2> QED
    BY <2>1, <2>3, <2>4, <1>0
<1>4. \A i \in SeparatorsIn(e) : (\A j \in SeparatorsIn(e) : i <= j) => i = k
  <2> TAKE i \in SeparatorsIn(e)
  <2>1. i \in Int
    BY <1>0, <1>1 DEF SeparatorsIn
  <2> QED
    BY <1>0, <1>2, <1>3, <2>1
<1>5. FirstSeparator(e) = k
  BY <1>2, <1>3, <1>4 DEF FirstSeparator
<1> QED
  BY <1>2, <1>5 DEF e

(* parseExposedName undoes formatExposedName for every server name the     *)
(* schema accepts, unless it ends in "_", and every nonempty tool name,    *)
(* separators in it included.                                              *)
THEOREM RoundTrip ==
  ASSUME NEW C, NEW s \in Seq(Characters(C)), NEW t \in Seq(Characters(C)),
         ValidServerName(s), s[Len(s)] # Underscore, t # <<>>
  PROVE  ParseExposedName(FormatExposedName(s, t)) = <<s, t>>
<1> DEFINE e == FormatExposedName(s, t)
           D == Characters(C)
           front == SubSeq(e, 1, Len(s))
           back == SubSeq(e, Len(s) + 3, Len(e))
<1>0. Len(s) \in Nat \ {0} /\ Len(t) \in Nat
  BY LenProperties, EmptySeq DEF ValidServerName
<1>1. /\ e \in Seq(D)
      /\ Len(e) = Len(s) + 2 + Len(t)
      /\ \A i \in 1 .. Len(s) : e[i] = s[i]
      /\ \A i \in 1 .. Len(t) : e[Len(s) + 2 + i] = t[i]
  <2>1. e \in Seq(D)
    BY Formatted
  <2>2. /\ Len(e) = Len(s) + 2 + Len(t)
        /\ \A i \in 1 .. Len(s) : e[i] = s[i]
    BY Formatted
  <2>3. \A i \in 1 .. Len(t) : e[Len(s) + 2 + i] = t[i]
    BY Formatted
  <2> QED
    BY <2>1, <2>2, <2>3
<1>2. SeparatorsIn(e) # {} /\ FirstSeparator(e) = Len(s) + 1
  BY SeparatorFound
<1>3. \A i \in 1 .. Len(e) : e[i] \in D
  BY <1>1, ElementOfSeq
<1> HIDE DEF e, D
<1>4. front = s
  <2>1. /\ front \in Seq(D)
        /\ Len(front) = Len(s)
        /\ \A i \in 1 .. Len(s) : front[i] = e[i]
    <3>1. \A i \in 1 .. Len(s) : e[i] \in D
      BY <1>0, <1>1, <1>3
    <3> QED
      BY <3>1, <1>0, SubSeqProperties
  <2> HIDE DEF front
  <2> QED
    BY <2>1, <1>1, SeqEqual DEF D
<1>5. back = t
  <2>1. /\ back \in Seq(D)
        /\ Len(back) = Len(t)
        /\ \A i \in 1 .. Len(t) : back[i] = e[Len(s) + 2 + i]
    <3>1. \A i \in Len(s) + 3 .. Len(e) : e[i] \in D
      BY <1>0, <1>1, <1>3
    <3>2. /\ back \in Seq(D)
          /\ Len(back) = IF Len(s) + 3 <= Len(e) THEN Len(e) - (Len(s) + 3) + 1 ELSE 0
          /\ \A i \in 1 .. Len(e) - (Len(s) + 3) + 1 : back[i] = e[(Len(s) + 3) + i - 1]
      BY <3>1, <1>0, <1>1, SubSeqProperties
    <3> QED
      BY <3>2, <1>0, <1>1
  <2> HIDE DEF back
  <2> QED
    BY <2>1, <1>1, SeqEqual DEF D
<1>6. ParseExposedName(e) =
        IF Len(s) + 1 = 1 \/ SubSeq(e, Len(s) + 1 + 2, Len(e)) = <<>> THEN NotExposed
        ELSE <<SubSeq(e, 1, Len(s) + 1 - 1), SubSeq(e, Len(s) + 1 + 2, Len(e))>>
  BY <1>2 DEF ParseExposedName
<1>7. Len(s) + 1 - 1 = Len(s) /\ Len(s) + 1 + 2 = Len(s) + 3 /\ Len(s) + 1 # 1
  BY <1>0
<1>8. ParseExposedName(e) = <<front, back>>
  BY <1>6, <1>7, <1>5
<1> QED
  BY <1>4, <1>5, <1>8 DEF e

(* Two different tools never share an exposed name, as long as no server  *)
(* name ends in "_".                                                      *)
THEOREM Injective ==
  ASSUME NEW C, NEW s1 \in Seq(Characters(C)), NEW t1 \in Seq(Characters(C)),
         NEW s2 \in Seq(Characters(C)), NEW t2 \in Seq(Characters(C)),
         ValidServerName(s1), s1[Len(s1)] # Underscore, t1 # <<>>,
         ValidServerName(s2), s2[Len(s2)] # Underscore, t2 # <<>>,
         FormatExposedName(s1, t1) = FormatExposedName(s2, t2)
  PROVE  s1 = s2 /\ t1 = t2
<1>1. ParseExposedName(FormatExposedName(s1, t1)) = <<s1, t1>>
  BY RoundTrip
<1>2. ParseExposedName(FormatExposedName(s2, t2)) = <<s2, t2>>
  BY RoundTrip
<1> QED
  BY <1>1, <1>2

-----------------------------------------------------------------------------
(* Extreme elements of sets of naturals.                                   *)

LEMMA LeastElement ==
  ASSUME NEW T \in SUBSET Nat, T # {}
  PROVE  \E x \in T : \A y \in T : x <= y
<1>1. PICK x \in T : \A y \in T : ~(<<y, x>> \in OpToRel(<, Nat))
  BY NatLessThanWellFounded, WFMin
<1>2. \A y \in T : ~(<<y, x>> \in {ss \in Nat \X Nat : ss[1] < ss[2]})
  BY <1>1, Zenon DEF OpToRel
<1>3. \A y \in T : ~(y < x)
  <2> TAKE y \in T
  <2>1. <<y, x>> \in Nat \X Nat /\ <<y, x>>[1] = y /\ <<y, x>>[2] = x
    OBVIOUS
  <2> QED
    BY <1>2, <2>1
<1> QED
  BY <1>3

LEMMA GreatestElement ==
  ASSUME NEW n \in Nat, NEW T \in SUBSET (1 .. n), T # {}
  PROVE  \E x \in T : \A y \in T : y <= x
<1> DEFINE D == {n - x : x \in T}
<1>1. D # {}
  OBVIOUS
<1>2. \A m \in D : m \in Nat /\ \E x \in T : m = n - x
  OBVIOUS
<1>3. \A y \in T : n - y \in D
  OBVIOUS
<1> HIDE DEF D
<1>4. PICK m \in D : \A y \in D : m <= y
  BY <1>1, <1>2, LeastElement
<1>5. PICK x \in T : m = n - x
  BY <1>4, <1>2
<1>6. \A y \in T : y <= x
  <2> TAKE y \in T
  <2>1. n - x <= n - y
    BY <1>3, <1>4, <1>5
  <2> QED
    BY <2>1
<1> QED
  BY <1>6

-----------------------------------------------------------------------------
(* The inductive invariant                                                 *)

\* What a server's entry holds are tools registered for that server.
OwnTools(s) == {r \in UpstreamEntries : r.server = s}

EntriesOwn ==
  /\ entries \in [Servers -> [present : BOOLEAN, visible : BOOLEAN,
                              tools : Seq(UpstreamEntries)]]
  /\ \A s \in Servers : \A i \in DOMAIN entries[s].tools :
       entries[s].tools[i] \in OwnTools(s)

\* What the index holds is exposed, and under that name.
IndexSound ==
  \A n \in Names :
    index[n] # NotFound => index[n] \in Visible /\ ExposedName(index[n]) = n

\* Every exposed tool's name is taken in the index.
IndexComplete == \A r \in Visible : index[ExposedName(r)] # NotFound

RegistryInv ==
  /\ EntriesOwn
  /\ customs \subseteq CustomTools
  /\ index \in [Names -> AllTools \cup {NotFound}]
  /\ notified \in BOOLEAN
  /\ IndexSound

-----------------------------------------------------------------------------
(* Operators                                                               *)

\* LastPlace chooses a place: the lists are finite.
LEMMA LastPlaceFound ==
  ASSUME NEW S, NEW list \in Seq(S), NEW n, Places(list, n) # {}
  PROVE  LastPlace(list, n) \in DOMAIN list /\ ExposedName(list[LastPlace(list, n)]) = n
<1>1. Len(list) \in Nat /\ DOMAIN list = 1 .. Len(list)
  BY LenProperties
<1>2. Places(list, n) \in SUBSET (1 .. Len(list))
  BY <1>1 DEF Places
<1>3. \E i \in Places(list, n) : \A j \in Places(list, n) : j <= i
  BY <1>1, <1>2, GreatestElement
<1>4. LastPlace(list, n) \in Places(list, n)
  BY <1>3 DEF LastPlace
<1> QED
  BY <1>4 DEF Places

\* The set of tools of an entry that are exposed.
LEMMA ShownTools ==
  ASSUME NEW S, NEW e \in [present : BOOLEAN, visible : BOOLEAN, tools : Seq(S)]
  PROVE  /\ Shown(e) \in Seq(S)
         /\ \A i \in DOMAIN Shown(e) : i \in DOMAIN e.tools /\ Shown(e)[i] = e.tools[i]
         /\ \A r : r \in ToSet(Shown(e)) <=> \E i \in DOMAIN Shown(e) : r = Shown(e)[i]
<1>1. Shown(e) \in Seq(S)
  BY EmptySeq DEF Shown
<1>2. \A i \in DOMAIN Shown(e) : i \in DOMAIN e.tools /\ Shown(e)[i] = e.tools[i]
  <2>1. CASE e.visible
    BY <2>1 DEF Shown
  <2>2. CASE ~e.visible
    BY <2>2 DEF Shown
  <2> QED
    BY <2>1, <2>2
<1>3. \A r : r \in ToSet(Shown(e)) <=> \E i \in DOMAIN Shown(e) : r = Shown(e)[i]
  BY DEF ToSet
<1> QED
  BY <1>1, <1>2, <1>3

LEMMA NotFoundIsNoTool == NotFound \notin AllTools
<1>1. \A r \in UpstreamEntries : r.source = "upstream"
  BY DEF UpstreamEntries, Registered
<1>2. \A r \in CustomTools : r.source = "custom"
  BY CustomAssumption
<1>3. NotFound.source = "none"
  BY DEF NotFound
<1> QED
  BY <1>1, <1>2, <1>3 DEF AllTools

\* The entry that setServerTools makes holds tools of its own server.
LEMMA EntryOwn ==
  ASSUME NEW s \in Servers, NEW visible \in BOOLEAN, NEW list \in Lists
  PROVE  /\ Entry(s, visible, list) \in
              [present : BOOLEAN, visible : BOOLEAN, tools : Seq(UpstreamEntries)]
         /\ \A i \in DOMAIN Entry(s, visible, list).tools :
              Entry(s, visible, list).tools[i] \in OwnTools(s)
<1> DEFINE tools == [i \in DOMAIN list |-> Registered(s, list[i])]
<1>1. PICK n \in 0 .. MaxList : list \in [1 .. n -> UpstreamTools]
  BY DEF Lists
<1>2. n \in Nat
  BY ListAssumption
<1>3. \A t \in UpstreamTools : Registered(s, t) \in OwnTools(s)
  BY DEF OwnTools, UpstreamEntries, Registered
<1>4. tools \in [1 .. n -> OwnTools(s)]
  BY <1>1, <1>3
<1>5. tools \in Seq(UpstreamEntries)
  BY <1>2, <1>4 DEF OwnTools
<1>6. Entry(s, visible, list) = [present |-> TRUE, visible |-> visible, tools |-> tools]
  BY DEF Entry
<1> HIDE DEF tools
<1> QED
  BY <1>4, <1>5, <1>6

\* The tools that are exposed are tools that may be.
LEMMA VisibleAreTools ==
  ASSUME EntriesOwn, customs \subseteq CustomTools
  PROVE  Visible \subseteq AllTools
<1>1. \A s \in Servers : ToSet(Shown(entries[s])) \subseteq UpstreamEntries
  <2> TAKE s \in Servers
  <2>1. Shown(entries[s]) \in Seq(UpstreamEntries)
    BY ShownTools DEF EntriesOwn
  <2> QED
    BY <2>1, ElementOfSeq, LenProperties DEF ToSet
<1>2. \A r \in Visible : r \in customs \/ \E s \in Servers : r \in ToSet(Shown(entries[s]))
  BY DEF Visible
<1> QED
  BY <1>1, <1>2 DEF AllTools

-----------------------------------------------------------------------------
(* Type correctness and soundness of the index                             *)

LEMMA InitInv == Init => RegistryInv
<1> SUFFICES ASSUME Init PROVE RegistryInv
  OBVIOUS
<1>1. entries = [s \in Servers |-> NoEntry] /\ customs = {}
      /\ index = [n \in Names |-> NotFound] /\ notified = FALSE
  BY DEF Init
<1>2. NoEntry \in [present : BOOLEAN, visible : BOOLEAN, tools : Seq(UpstreamEntries)]
      /\ NoEntry.tools = <<>>
  BY EmptySeq DEF NoEntry
<1>3. EntriesOwn
  BY <1>1, <1>2 DEF EntriesOwn
<1>4. IndexSound
  BY <1>1 DEF IndexSound
<1> QED
  BY <1>1, <1>3, <1>4 DEF RegistryInv

\* An entry is replaced, or removed (ix is then only what is left over).
LEMMA EntrySteps ==
  ASSUME RegistryInv, NEW s \in Servers, NEW e,
         e \in [present : BOOLEAN, visible : BOOLEAN, tools : Seq(UpstreamEntries)],
         \A i \in DOMAIN e.tools : e.tools[i] \in OwnTools(s),
         entries' = [entries EXCEPT ![s] = e], UNCHANGED customs,
         index' = AddToIndex(DropFromIndex(index, entries[s]), e)
  PROVE  /\ EntriesOwn'
         /\ index' \in [Names -> AllTools \cup {NotFound}]
         /\ IndexSound'
<1> DEFINE old == Shown(entries[s])
           new == Shown(e)
           left == DropFromIndex(index, entries[s])
<1>1. EntriesOwn'
  BY DEF RegistryInv, EntriesOwn
<1>2. /\ new \in Seq(UpstreamEntries)
      /\ \A i \in DOMAIN new : new[i] \in ToSet(new)
  BY ShownTools
<1>3. \A n \in Names : Places(new, n) # {} =>
        /\ index'[n] = new[LastPlace(new, n)]
        /\ LastPlace(new, n) \in DOMAIN new
        /\ ExposedName(index'[n]) = n
  <2> SUFFICES ASSUME NEW n \in Names, Places(new, n) # {}
               PROVE  /\ index'[n] = new[LastPlace(new, n)]
                      /\ LastPlace(new, n) \in DOMAIN new
                      /\ ExposedName(index'[n]) = n
    OBVIOUS
  <2>1. index'[n] = new[LastPlace(new, n)]
    BY DEF AddToIndex
  <2> HIDE DEF new
  <2>2. LastPlace(new, n) \in DOMAIN new /\ ExposedName(new[LastPlace(new, n)]) = n
    BY <1>2, LastPlaceFound
  <2> QED
    BY <2>1, <2>2
<1>4. \A n \in Names : Places(new, n) = {} =>
        index'[n] = IF Places(old, n) # {} THEN NotFound ELSE index[n]
  BY DEF AddToIndex, DropFromIndex
<1>5. \A n \in Names : Places(new, n) # {} => index'[n] \in ToSet(new)
  BY <1>2, <1>3
<1>6. ToSet(new) \subseteq Visible'
  BY DEF Visible, RegistryInv, EntriesOwn
<1>7. \A r \in Visible : r \in Visible' \/ r \in ToSet(old)
  BY DEF Visible, RegistryInv, EntriesOwn
<1>8. index' = [n \in Names |-> index'[n]]
  BY DEF AddToIndex
<1>9. ToSet(new) \subseteq AllTools
  BY <1>2, ElementOfSeq, LenProperties DEF ToSet, AllTools
<1>10. index \in [Names -> AllTools \cup {NotFound}]
  BY DEF RegistryInv
<1>11. \A r \in ToSet(old) : Places(old, ExposedName(r)) # {}
  BY DEF ToSet, Places
<1> HIDE DEF old, new
<1>12. index' \in [Names -> AllTools \cup {NotFound}]
  <2>1. \A n \in Names : index'[n] \in AllTools \cup {NotFound}
    BY <1>4, <1>5, <1>9, <1>10
  <2> QED
    BY <1>8, <2>1
<1>13. IndexSound'
  <2> SUFFICES ASSUME NEW n \in Names, index'[n] # NotFound
               PROVE  index'[n] \in Visible' /\ ExposedName(index'[n]) = n
    BY DEF IndexSound
  <2>1. CASE Places(new, n) # {}
    BY <2>1, <1>3, <1>5, <1>6
  <2>2. CASE Places(new, n) = {}
    <3>1. Places(old, n) = {} /\ index'[n] = index[n]
      BY <2>2, <1>4
    <3>2. index[n] \in Visible /\ ExposedName(index[n]) = n
      BY <3>1 DEF RegistryInv, IndexSound
    <3>3. index[n] \notin ToSet(old)
      BY <3>1, <3>2, <1>11
    <3> QED
      BY <3>1, <3>2, <3>3, <1>7
  <2> QED
    BY <2>1, <2>2
<1> QED
  BY <1>1, <1>12, <1>13

\* Removing an entry is replacing it by one that shows nothing.
LEMMA RemovalShowsNothing ==
  ASSUME NEW ix, ix = [n \in Names |-> ix[n]]
  PROVE  /\ Shown(NoEntry) = <<>>
         /\ AddToIndex(ix, NoEntry) = ix
         /\ NoEntry \in [present : BOOLEAN, visible : BOOLEAN, tools : Seq(UpstreamEntries)]
<1>1. Shown(NoEntry) = <<>>
  BY DEF Shown, NoEntry
<1>2. \A n : Places(<<>>, n) = {}
  BY DEF Places
<1>3. AddToIndex(ix, NoEntry) = [n \in Names |-> ix[n]]
  BY <1>1, <1>2 DEF AddToIndex
<1>4. NoEntry \in [present : BOOLEAN, visible : BOOLEAN, tools : Seq(UpstreamEntries)]
  BY EmptySeq DEF NoEntry
<1> QED
  BY <1>1, <1>3, <1>4

\* The custom tools are replaced.
LEMMA CustomSteps ==
  ASSUME RegistryInv, NEW T \in SUBSET CustomTools, SetCustomTools(T)
  PROVE  RegistryInv'
<1>1. CASE T = customs
  BY <1>1 DEF SetCustomTools, RegistryInv, EntriesOwn, IndexSound, Visible
<1>2. CASE T # customs
  <2>1. /\ customs' = T /\ notified' = TRUE /\ entries' = entries
        /\ index' = [n \in Names |->
             IF Named(T, n) # {} THEN CHOOSE r \in Named(T, n) : TRUE
             ELSE IF Named(customs, n) # {} THEN NotFound ELSE index[n]]
    BY <1>2 DEF SetCustomTools, Indexed
  <2>2. \A n \in Names : Named(T, n) # {} =>
          index'[n] \in T /\ ExposedName(index'[n]) = n
    <3> TAKE n \in Names
    <3> HAVE Named(T, n) # {}
    <3>1. index'[n] \in Named(T, n)
      BY <2>1
    <3> QED
      BY <3>1 DEF Named
  <2>3. \A n \in Names : Named(T, n) = {} =>
          index'[n] = IF Named(customs, n) # {} THEN NotFound ELSE index[n]
    BY <2>1
  <2>4. index' \in [Names -> AllTools \cup {NotFound}]
    <3>1. \A n \in Names : index'[n] \in AllTools \cup {NotFound}
      BY <2>2, <2>3 DEF RegistryInv, AllTools
    <3>2. index' = [n \in Names |-> index'[n]]
      BY <2>1
    <3> QED
      BY <3>1, <3>2
  <2>5. T \subseteq Visible' /\ \A r \in Visible : r \in Visible' \/ r \in customs
    BY <2>1 DEF Visible
  <2>6. IndexSound'
    <3> SUFFICES ASSUME NEW n \in Names, index'[n] # NotFound
                 PROVE  index'[n] \in Visible' /\ ExposedName(index'[n]) = n
      BY DEF IndexSound
    <3>1. CASE Named(T, n) # {}
      BY <3>1, <2>2, <2>5
    <3>2. CASE Named(T, n) = {}
      <4>1. Named(customs, n) = {} /\ index'[n] = index[n]
        BY <3>2, <2>3
      <4>2. index[n] \in Visible /\ ExposedName(index[n]) = n
        BY <4>1 DEF RegistryInv, IndexSound
      <4>3. index[n] \notin customs
        BY <4>1, <4>2 DEF Named
      <4> QED
        BY <4>1, <4>2, <4>3, <2>5
    <3> QED
      BY <3>1, <3>2
  <2>7. EntriesOwn' /\ customs' \subseteq CustomTools /\ notified' \in BOOLEAN
    BY <2>1 DEF RegistryInv, EntriesOwn
  <2> QED
    BY <2>4, <2>6, <2>7 DEF RegistryInv
<1> QED
  BY <1>1, <1>2

\* What SetServerEntry and RemoveServer do, in the form of EntrySteps.
LEMMA EntryActions ==
  ASSUME RegistryInv, NEW s \in Servers,
         \/ \E visible \in BOOLEAN, list \in Lists : SetServerEntry(s, visible, list)
         \/ RemoveServer(s)
  PROVE  /\ notified' \in BOOLEAN
         /\ UNCHANGED customs
         /\ \E e \in [present : BOOLEAN, visible : BOOLEAN, tools : Seq(UpstreamEntries)] :
              /\ \A i \in DOMAIN e.tools : e.tools[i] \in OwnTools(s)
              /\ entries' = [entries EXCEPT ![s] = e]
              /\ index' = AddToIndex(DropFromIndex(index, entries[s]), e)
<1>1. ASSUME NEW visible \in BOOLEAN, NEW list \in Lists, SetServerEntry(s, visible, list)
      PROVE  /\ notified' \in BOOLEAN
             /\ UNCHANGED customs
             /\ \E e \in [present : BOOLEAN, visible : BOOLEAN, tools : Seq(UpstreamEntries)] :
                  /\ \A i \in DOMAIN e.tools : e.tools[i] \in OwnTools(s)
                  /\ entries' = [entries EXCEPT ![s] = e]
                  /\ index' = AddToIndex(DropFromIndex(index, entries[s]), e)
  <2>1. /\ UNCHANGED customs
        /\ entries' = [entries EXCEPT ![s] = Entry(s, visible, list)]
        /\ index' = AddToIndex(DropFromIndex(index, entries[s]), Entry(s, visible, list))
    BY <1>1 DEF SetServerEntry
  <2>2. notified' = IF entries[s].present
                    THEN ~EqualForVisibility(entries[s], Entry(s, visible, list))
                    ELSE visible
    BY <1>1 DEF SetServerEntry
  <2>3. notified' \in BOOLEAN
    BY <2>2
  <2> QED
    BY <2>1, <2>3, EntryOwn
<1>2. ASSUME RemoveServer(s)
      PROVE  /\ notified' \in BOOLEAN
             /\ UNCHANGED customs
             /\ \E e \in [present : BOOLEAN, visible : BOOLEAN, tools : Seq(UpstreamEntries)] :
                  /\ \A i \in DOMAIN e.tools : e.tools[i] \in OwnTools(s)
                  /\ entries' = [entries EXCEPT ![s] = e]
                  /\ index' = AddToIndex(DropFromIndex(index, entries[s]), e)
  <2> DEFINE left == DropFromIndex(index, entries[s])
  <2>1. left = [n \in Names |-> left[n]]
    BY DEF DropFromIndex
  <2>2. AddToIndex(left, NoEntry) = left
    <3> HIDE DEF left
    <3> QED
      BY <2>1, RemovalShowsNothing
  <2>3. /\ NoEntry \in [present : BOOLEAN, visible : BOOLEAN, tools : Seq(UpstreamEntries)]
        /\ NoEntry.tools = <<>>
    BY EmptySeq DEF NoEntry
  <2>4. \A i \in DOMAIN NoEntry.tools : NoEntry.tools[i] \in OwnTools(s)
    BY <2>3
  <2>5. entries' = [entries EXCEPT ![s] = NoEntry] /\ index' = left /\ UNCHANGED customs
    BY <1>2 DEF RemoveServer
  <2>6. notified' \in BOOLEAN
    BY <1>2 DEF RemoveServer, RegistryInv, EntriesOwn
  <2> QED
    BY <2>2, <2>3, <2>4, <2>5, <2>6
<1> QED
  BY <1>1, <1>2

LEMMA StepInv == RegistryInv /\ [Next]_registryVars => RegistryInv'
<1> SUFFICES ASSUME RegistryInv, [Next]_registryVars
             PROVE  RegistryInv'
  OBVIOUS
<1>1. ASSUME NEW s \in Servers,
             \/ \E visible \in BOOLEAN, list \in Lists : SetServerEntry(s, visible, list)
             \/ RemoveServer(s)
      PROVE  RegistryInv'
  <2>1. PICK e \in [present : BOOLEAN, visible : BOOLEAN, tools : Seq(UpstreamEntries)] :
          /\ \A i \in DOMAIN e.tools : e.tools[i] \in OwnTools(s)
          /\ entries' = [entries EXCEPT ![s] = e]
          /\ index' = AddToIndex(DropFromIndex(index, entries[s]), e)
    BY <1>1, EntryActions
  <2>2. notified' \in BOOLEAN /\ UNCHANGED customs
    BY <1>1, EntryActions
  <2>3. /\ EntriesOwn'
        /\ index' \in [Names -> AllTools \cup {NotFound}]
        /\ IndexSound'
    BY <2>1, <2>2, EntrySteps
  <2> QED
    BY <2>2, <2>3 DEF RegistryInv
<1>2. ASSUME NEW T \in SUBSET CustomTools, SetCustomTools(T)
      PROVE  RegistryInv'
  BY <1>2, CustomSteps
<1>3. CASE UNCHANGED registryVars
  BY <1>3 DEF registryVars, RegistryInv, EntriesOwn, IndexSound, Visible
<1> QED
  BY <1>1, <1>2, <1>3 DEF Next

(* The registry's variables keep their types, and its index holds under a  *)
(* name nothing but an exposed tool of that name.                          *)
THEOREM RegistryInvariant == Spec => []RegistryInv
<1>1. RegistryInv /\ [Next]_registryVars => RegistryInv'
  BY StepInv
<1> QED
  BY InitInv, <1>1, PTL DEF Spec

(* TypeOK: the entries, the custom tools and the index stay well-formed    *)
(* whatever lists the upstreams return, and repeat.                        *)
THEOREM TypeCorrect == Spec => []TypeOK
<1>1. RegistryInv => TypeOK
  BY DEF RegistryInv, EntriesOwn, TypeOK
<1> QED
  BY <1>1, RegistryInvariant, PTL

-----------------------------------------------------------------------------
(* What is listed can be called, when names are unambiguous                *)

LEMMA InitComplete == Init => IndexComplete
  BY DEF Init, IndexComplete, Visible, Shown, NoEntry, ToSet

LEMMA NamesOfTools == \A r \in AllTools : ExposedName(r) \in Names
  BY DEF Names

\* The exposed tools that are not of server s.
OfOthers(s) == {r \in Visible : r \in customs
                  \/ \E q \in Servers \ {s} : r \in ToSet(Shown(entries[q]))}

\* Another server's tool, and a custom tool, has a name of its own.
LEMMA OthersApart ==
  ASSUME RegistryInv, NamesUnambiguous, NEW s \in Servers, NEW r \in OfOthers(s)
  PROVE  Places(Shown(entries[s]), ExposedName(r)) = {}
<1>1. r \in AllTools
  BY VisibleAreTools DEF RegistryInv, OfOthers
<1>2. r.server # s
  <2>1. CASE r \in customs
    BY <2>1, CustomAssumption DEF RegistryInv
  <2>2. ASSUME NEW q \in Servers \ {s}, r \in ToSet(Shown(entries[q]))
        PROVE  r.server # s
    <3>1. PICK i \in DOMAIN entries[q].tools : r = entries[q].tools[i]
      BY <2>2, ShownTools DEF RegistryInv, EntriesOwn
    <3>2. r.server = q
      BY <3>1 DEF RegistryInv, EntriesOwn, OwnTools
    <3> QED
      BY <3>2
  <2> QED
    BY <2>1, <2>2 DEF OfOthers
<1>3. \A i \in DOMAIN Shown(entries[s]) :
        Shown(entries[s])[i] \in AllTools /\ Shown(entries[s])[i].server = s
  <2> TAKE i \in DOMAIN Shown(entries[s])
  <2>1. i \in DOMAIN entries[s].tools /\ Shown(entries[s])[i] = entries[s].tools[i]
    BY ShownTools DEF RegistryInv, EntriesOwn
  <2> QED
    BY <2>1 DEF RegistryInv, EntriesOwn, OwnTools, AllTools
<1> QED
  BY <1>1, <1>2, <1>3 DEF Places, NamesUnambiguous

LEMMA EntryComplete ==
  ASSUME RegistryInv, IndexComplete, NamesUnambiguous, NEW s \in Servers, NEW e,
         e \in [present : BOOLEAN, visible : BOOLEAN, tools : Seq(UpstreamEntries)],
         entries' = [entries EXCEPT ![s] = e], UNCHANGED customs,
         index' = AddToIndex(DropFromIndex(index, entries[s]), e)
  PROVE  IndexComplete'
<1> DEFINE new == Shown(e)
           old == Shown(entries[s])
<1>1. /\ new \in Seq(UpstreamEntries)
      /\ \A r : r \in ToSet(new) <=> \E i \in DOMAIN new : r = new[i]
  BY ShownTools
<1>2. \A n \in Names :
        index'[n] = IF Places(new, n) # {} THEN new[LastPlace(new, n)]
                    ELSE IF Places(old, n) # {} THEN NotFound ELSE index[n]
  BY DEF AddToIndex, DropFromIndex
<1>3. \A r \in Visible' : r \in ToSet(new) \/ r \in OfOthers(s)
  BY DEF Visible, OfOthers, RegistryInv, EntriesOwn
<1>4. \A r \in OfOthers(s) : Places(old, ExposedName(r)) = {}
  BY OthersApart
<1>5. OfOthers(s) \subseteq Visible /\ Visible \subseteq AllTools
  BY VisibleAreTools DEF OfOthers, RegistryInv
<1> HIDE DEF new, old
<1>6. \A n : Places(new, n) # {} => new[LastPlace(new, n)] # NotFound
  <2> TAKE n
  <2> HAVE Places(new, n) # {}
  <2>1. LastPlace(new, n) \in DOMAIN new
    BY <1>1, LastPlaceFound
  <2>2. new[LastPlace(new, n)] \in UpstreamEntries
    BY <2>1, <1>1, ElementOfSeq, LenProperties
  <2> QED
    BY <2>2, NotFoundIsNoTool DEF AllTools
<1>7. \A r \in ToSet(new) : r \in AllTools /\ Places(new, ExposedName(r)) # {}
  <2> TAKE r \in ToSet(new)
  <2>1. PICK i \in DOMAIN new : r = new[i]
    BY <1>1
  <2>2. r \in UpstreamEntries
    BY <2>1, <1>1, ElementOfSeq, LenProperties
  <2> QED
    BY <2>1, <2>2 DEF AllTools, Places
<1>8. SUFFICES ASSUME NEW r \in Visible'
               PROVE  index'[ExposedName(r)] # NotFound
  BY DEF IndexComplete
<1>9. CASE r \in ToSet(new)
  BY <1>9, <1>2, <1>6, <1>7, NamesOfTools
<1>10. CASE r \in OfOthers(s)
  <2>1. ExposedName(r) \in Names /\ index[ExposedName(r)] # NotFound
    BY <1>10, <1>5, NamesOfTools DEF IndexComplete
  <2>2. Places(old, ExposedName(r)) = {}
    BY <1>10, <1>4
  <2> QED
    BY <2>1, <2>2, <1>2, <1>6
<1> QED
  BY <1>3, <1>9, <1>10

LEMMA CustomComplete ==
  ASSUME RegistryInv, IndexComplete, NamesUnambiguous,
         NEW T \in SUBSET CustomTools, SetCustomTools(T)
  PROVE  IndexComplete'
<1>1. CASE T = customs
  BY <1>1 DEF SetCustomTools, IndexComplete, Visible
<1>2. CASE T # customs
  <2>1. /\ customs' = T /\ entries' = entries
        /\ index' = [n \in Names |->
             IF Named(T, n) # {} THEN CHOOSE r \in Named(T, n) : TRUE
             ELSE IF Named(customs, n) # {} THEN NotFound ELSE index[n]]
    BY <1>2 DEF SetCustomTools, Indexed
  <2>2. \A n \in Names : Named(T, n) # {} => index'[n] # NotFound
    <3> TAKE n \in Names
    <3> HAVE Named(T, n) # {}
    <3>1. index'[n] \in Named(T, n)
      BY <2>1
    <3> QED
      BY <3>1, NotFoundIsNoTool DEF Named, AllTools
  <2>3. SUFFICES ASSUME NEW r \in Visible'
                 PROVE  index'[ExposedName(r)] # NotFound
    BY DEF IndexComplete
  <2>4. CASE r \in T
    <3>1. r \in Named(T, ExposedName(r)) /\ ExposedName(r) \in Names
      BY <2>4, NamesOfTools DEF Named, AllTools
    <3> QED
      BY <3>1, <2>2
  <2>5. ASSUME NEW s \in Servers, r \in ToSet(Shown(entries[s]))
        PROVE  index'[ExposedName(r)] # NotFound
    <3>1. PICK i \in DOMAIN entries[s].tools : r = entries[s].tools[i]
      BY <2>5, ShownTools DEF RegistryInv, EntriesOwn
    <3>2. r \in AllTools /\ r.server = s
      BY <3>1 DEF RegistryInv, EntriesOwn, OwnTools, AllTools
    <3>3. Named(customs, ExposedName(r)) = {}
      BY <3>2, CustomAssumption DEF Named, NamesUnambiguous, RegistryInv, AllTools
    <3>4. ExposedName(r) \in Names /\ index[ExposedName(r)] # NotFound
      BY <2>5, <3>2, NamesOfTools DEF IndexComplete, Visible
    <3> QED
      BY <3>3, <3>4, <2>1, <2>2
  <2> QED
    BY <2>1, <2>4, <2>5 DEF Visible
<1> QED
  BY <1>1, <1>2

LEMMA StepComplete ==
  ASSUME NamesUnambiguous, RegistryInv, IndexComplete, [Next]_registryVars
  PROVE  IndexComplete'
<1>1. ASSUME NEW s \in Servers,
             \/ \E visible \in BOOLEAN, list \in Lists : SetServerEntry(s, visible, list)
             \/ RemoveServer(s)
      PROVE  IndexComplete'
  <2>1. PICK e \in [present : BOOLEAN, visible : BOOLEAN, tools : Seq(UpstreamEntries)] :
          /\ entries' = [entries EXCEPT ![s] = e]
          /\ index' = AddToIndex(DropFromIndex(index, entries[s]), e)
    BY <1>1, EntryActions
  <2>2. UNCHANGED customs
    BY <1>1, EntryActions
  <2> QED
    BY <2>1, <2>2, EntryComplete
<1>2. ASSUME NEW T \in SUBSET CustomTools, SetCustomTools(T)
      PROVE  IndexComplete'
  BY <1>2, CustomComplete
<1>3. CASE UNCHANGED registryVars
  BY <1>3 DEF registryVars, IndexComplete, Visible
<1> QED
  BY <1>1, <1>2, <1>3 DEF Next

LEMMA ListedFromInv ==
  ASSUME NamesUnambiguous, RegistryInv, IndexComplete
  PROVE  ListedIsCallable
<1>1. ASSUME NEW r \in Visible
      PROVE  /\ index[ExposedName(r)].server = r.server
             /\ index[ExposedName(r)].name = r.name
  <2> DEFINE q == index[ExposedName(r)]
  <2>1. r \in AllTools /\ ExposedName(r) \in Names
    BY VisibleAreTools, NamesOfTools DEF RegistryInv
  <2>2. q \in Visible /\ ExposedName(q) = ExposedName(r)
    BY <2>1 DEF IndexComplete, RegistryInv, IndexSound
  <2>3. q \in AllTools
    BY <2>2, VisibleAreTools DEF RegistryInv
  <2> HIDE DEF q
  <2>4. q.server = r.server /\ q.name = r.name
    BY <2>1, <2>2, <2>3 DEF NamesUnambiguous
  <2> QED
    BY <2>4 DEF q
<1> QED
  BY <1>1 DEF ListedIsCallable, RegistryInv, IndexSound

(* ListedIsCallable: as long as exposed names are unambiguous, tools/list  *)
(* shows what find() finds, and nothing else, whatever the upstreams list. *)
THEOREM ListedCallable ==
  ASSUME NamesUnambiguous
  PROVE  Spec => []ListedIsCallable
<1> DEFINE Inv == RegistryInv /\ IndexComplete
<1>1. Init => Inv
  BY InitInv, InitComplete
<1>2. Inv /\ [Next]_registryVars => Inv'
  BY StepInv, StepComplete
<1>3. Inv => ListedIsCallable
  BY ListedFromInv
<1> HIDE DEF Inv
<1> QED
  BY <1>1, <1>2, <1>3, PTL DEF Spec

-----------------------------------------------------------------------------
(* The names themselves                                                    *)

\* Names that ServerNameSchema accepts, of servers and of custom namespaces, and
\* tools that have a name.
NamesWellFormed ==
  \A r \in AllTools :
    /\ r.server \in Seq(Characters(STRING)) /\ r.name \in Seq(Characters(STRING))
    /\ ValidServerName(r.server)
    /\ r.name # <<>>

NoTrailingUnderscore == \A r \in AllTools : r.server[Len(r.server)] # Underscore

(* Exposed names are unambiguous, unless a server's name ends in "_".     *)
THEOREM UnambiguousNames ==
  ASSUME NamesWellFormed, NoTrailingUnderscore
  PROVE  NamesUnambiguous
<1> SUFFICES ASSUME NEW r \in AllTools, NEW q \in AllTools,
                    FormatExposedName(r.server, r.name)
                      = FormatExposedName(q.server, q.name)
             PROVE  r.server = q.server /\ r.name = q.name
  BY DEF NamesUnambiguous, ExposedName
<1>1. /\ r.server \in Seq(Characters(STRING)) /\ r.name \in Seq(Characters(STRING))
      /\ ValidServerName(r.server) /\ r.name # <<>>
      /\ r.server[Len(r.server)] # Underscore
  BY DEF NamesWellFormed, NoTrailingUnderscore
<1>2. /\ q.server \in Seq(Characters(STRING)) /\ q.name \in Seq(Characters(STRING))
      /\ ValidServerName(q.server) /\ q.name # <<>>
      /\ q.server[Len(q.server)] # Underscore
  BY DEF NamesWellFormed, NoTrailingUnderscore
<1> QED
  BY <1>1, <1>2, Injective

(* NamesLeadBack: the exposed name of every listed tool parses to its own  *)
(* server and tool, for names of any length.                               *)
THEOREM LeadsBack ==
  ASSUME NamesWellFormed
  PROVE  Spec => []NamesLeadBack
<1>1. RegistryInv => NamesLeadBack
  <2> SUFFICES ASSUME RegistryInv, NEW r \in Visible,
                      r.server[Len(r.server)] # Underscore
               PROVE  ParseExposedName(ExposedName(r)) = <<r.server, r.name>>
    BY DEF NamesLeadBack
  <2>1. r \in AllTools
    BY VisibleAreTools DEF RegistryInv
  <2>2. /\ r.server \in Seq(Characters(STRING)) /\ r.name \in Seq(Characters(STRING))
        /\ ValidServerName(r.server) /\ r.name # <<>>
    BY <2>1 DEF NamesWellFormed
  <2> QED
    BY <2>2, RoundTrip DEF ExposedName
<1> QED
  BY <1>1, RegistryInvariant, PTL

-----------------------------------------------------------------------------
(* Listeners that are not called miss nothing                              *)

\* Equal fingerprints are equal sets of tools.
LEMMA SameToolsSameSet ==
  ASSUME NEW p, NEW q, SameTools(p, q)
  PROVE  ToSet(p) = ToSet(q)
<1>1. PICK f \in Bijection(DOMAIN p, DOMAIN q) : \A i \in DOMAIN p : p[i] = q[f[i]]
  BY DEF SameTools
<1>2. /\ \A i \in DOMAIN p : f[i] \in DOMAIN q
      /\ \A j \in DOMAIN q : \E i \in DOMAIN p : f[i] = j
  BY <1>1 DEF Bijection, Injection, Surjection
<1>3. \A i \in DOMAIN p : \E j \in DOMAIN q : p[i] = q[j]
  BY <1>1, <1>2
<1>4. \A j \in DOMAIN q : \E i \in DOMAIN p : p[i] = q[j]
  BY <1>1, <1>2
<1> QED
  BY <1>3, <1>4 DEF ToSet

LEMMA EqualEntriesShowTheSame ==
  ASSUME NEW e, NEW f, EqualForVisibility(e, f)
  PROVE  ToSet(Shown(e)) = ToSet(Shown(f))
<1>1. CASE e.visible
  BY <1>1, SameToolsSameSet DEF EqualForVisibility, Shown
<1>2. CASE ~e.visible
  BY <1>2 DEF EqualForVisibility, Shown
<1> QED
  BY <1>1, <1>2

\* An entry that is not there shows nothing.
AbsentShowsNothing == \A s \in Servers : ~entries[s].present => ~entries[s].visible

\* A step that calls no listener leaves what tools/list reads as it was.
LEMMA QuietServerStep ==
  ASSUME RegistryInv, AbsentShowsNothing, NEW s \in Servers, NEW visible \in BOOLEAN,
         NEW list, SetServerEntry(s, visible, list), ~notified'
  PROVE  Visible' = Visible
<1> DEFINE next == Entry(s, visible, list)
<1>1. /\ entries' = [entries EXCEPT ![s] = next] /\ UNCHANGED customs
      /\ IF entries[s].present THEN EqualForVisibility(entries[s], next) ELSE ~visible
  BY DEF SetServerEntry
<1>2. ToSet(Shown(entries[s])) = ToSet(Shown(next))
  <2>1. CASE entries[s].present
    BY <2>1, <1>1, EqualEntriesShowTheSame
  <2>2. CASE ~entries[s].present
    <3>1. ~entries[s].visible /\ ~next.visible
      BY <2>2, <1>1 DEF AbsentShowsNothing, Entry
    <3> QED
      BY <3>1 DEF Shown
  <2> QED
    BY <2>1, <2>2
<1> HIDE DEF next
<1>3. \A q \in Servers : ToSet(Shown(entries'[q])) = ToSet(Shown(entries[q]))
  BY <1>1, <1>2 DEF RegistryInv, EntriesOwn
<1>4. (UNION {ToSet(Shown(entries'[q])) : q \in Servers})
        = UNION {ToSet(Shown(entries[q])) : q \in Servers}
  BY <1>3
<1> QED
  BY <1>1, <1>4 DEF Visible

LEMMA QuietCustomStep ==
  ASSUME NEW T, SetCustomTools(T), ~notified'
  PROVE  Visible' = Visible
BY DEF SetCustomTools, Visible

\* Only an entry of the config has tools.
LEMMA AbsentStep ==
  ASSUME AbsentShowsNothing, EntriesOwn, [Next]_registryVars
  PROVE  AbsentShowsNothing'
<1>1. ASSUME NEW s \in Servers, NEW visible \in BOOLEAN, NEW list \in Lists,
             SetServerEntry(s, visible, list)
      PROVE  AbsentShowsNothing'
  <2>1. entries' = [entries EXCEPT ![s] = Entry(s, visible, list)]
    BY <1>1 DEF SetServerEntry
  <2> QED
    BY <2>1 DEF AbsentShowsNothing, EntriesOwn, Entry
<1>2. ASSUME NEW s \in Servers, RemoveServer(s)
      PROVE  AbsentShowsNothing'
  BY <1>2 DEF RemoveServer, AbsentShowsNothing, EntriesOwn, NoEntry
<1>3. ASSUME NEW T \in SUBSET CustomTools, SetCustomTools(T)
      PROVE  AbsentShowsNothing'
  BY <1>3 DEF SetCustomTools, AbsentShowsNothing
<1>4. CASE UNCHANGED registryVars
  BY <1>4 DEF registryVars, AbsentShowsNothing
<1> QED
  BY <1>1, <1>2, <1>3, <1>4 DEF Next

-----------------------------------------------------------------------------
(* What clients see, call and are told                                     *)

\* A step of the gateway's clients is one of the registry, with every session
\* told of a change; a change of a revealed set; or a step of one session.
LEMMA DisclosureSteps ==
  ASSUME DisclosureNext
  PROVE  \/ /\ \/ \E s \in Servers, visible \in BOOLEAN, list \in Lists :
                    SetServerEntry(s, visible, list)
               \/ \E r \in CustomTools : SetCustomTools(customs \cup {r})
            /\ TellClients
         \/ Broadcast
         \/ \E d \in Clients :
              \/ \E R : Becomes(d, R)
              \/ Open(d) \/ Initialized(d) \/ ListTools(d) \/ Fire(d) \/ Close(d)
BY DEF DisclosureNext, ServerChanges, CustomToolLoads, RevealTools, HideTools,
       SearchTools, RevealNames, HideNames

\* To the registry its clients are not there.
LEMMA DisclosureStepIsRegistryStep ==
  ASSUME customs \subseteq CustomTools, [DisclosureNext]_vars
  PROVE  [Next]_registryVars
<1>1. CASE UNCHANGED vars
  BY <1>1 DEF vars, registryVars
<1>2. CASE DisclosureNext
  <2>1. ASSUME NEW s \in Servers, NEW visible \in BOOLEAN, NEW list \in Lists,
               SetServerEntry(s, visible, list)
        PROVE  Next
    BY <2>1 DEF Next
  <2>2. ASSUME NEW r \in CustomTools, SetCustomTools(customs \cup {r})
        PROVE  Next
    <3>1. customs \cup {r} \in SUBSET CustomTools
      OBVIOUS
    <3> QED
      BY <2>2, <3>1 DEF Next
  <2>3. ASSUME NEW d \in Clients, NEW R, Becomes(d, R)
        PROVE  UNCHANGED registryVars
    BY <2>3 DEF Becomes
  <2>4. ASSUME NEW d \in Clients,
               Open(d) \/ Initialized(d) \/ ListTools(d) \/ Fire(d) \/ Close(d)
        PROVE  UNCHANGED registryVars
    BY <2>4 DEF Open, Initialized, ListTools, Fire, Close
  <2>5. ASSUME Broadcast PROVE UNCHANGED registryVars
    BY <2>5 DEF Broadcast
  <2> QED
    BY <1>2, <2>1, <2>2, <2>3, <2>4, <2>5, DisclosureSteps
<1> QED
  BY <1>1, <1>2

(* The gateway's clients, who only read it, leave the tool registry one:   *)
(* every behaviour of Disclosure is one of ToolRegistry.                   *)
THEOREM DisclosureImplementsRegistry == DisclosureSpec => Spec
<1>1. DisclosureInit => Init
  BY DEF DisclosureInit
<1>2. RegistryInv /\ [DisclosureNext]_vars => [Next]_registryVars
  BY DisclosureStepIsRegistryStep DEF RegistryInv
<1>3. RegistryInv /\ [Next]_registryVars => RegistryInv'
  BY StepInv
<1> QED
  BY <1>1, <1>2, <1>3, InitInv, PTL DEF DisclosureSpec, Spec

\* tools/list and tools/call read the same tools, if the index is right.
LEMMA AgreesFromInv ==
  ASSUME NamesUnambiguous, RegistryInv, IndexComplete
  PROVE  ListAgreesWithCall
<1>1. \A r \in Visible : /\ ExposedName(r) \in Names
                         /\ index[ExposedName(r)] # NotFound
                         /\ index[ExposedName(r)].server = r.server
                         /\ index[ExposedName(r)].name = r.name
  BY ListedFromInv, VisibleAreTools, NamesOfTools
     DEF ListedIsCallable, IndexComplete, RegistryInv
<1>2. \A n \in Names : index[n] # NotFound => index[n] \in Visible /\ ExposedName(index[n]) = n
  BY DEF RegistryInv, IndexSound
<1>3. ASSUME NEW d \in Clients, NEW r \in Listing(d)
      PROVE  /\ Answer(d, ExposedName(r)) = "routed"
             /\ Find(ExposedName(r)).server = r.server
             /\ Find(ExposedName(r)).name = r.name
  <2> DEFINE n == ExposedName(r)
  <2>1. r \in Visible /\ n \notin Bootstrap /\ n \notin Disabled
        /\ (Filters(d) => IsVisible(d, n))
    BY <1>3 DEF Listing
  <2>2. Find(n) = index[n] /\ Find(n) # NotFound
    BY <1>1, <2>1 DEF Find
  <2>3. Answer(d, n) = "routed"
    BY <2>1, <2>2 DEF Answer, Filters
  <2> QED
    BY <1>1, <2>1, <2>2, <2>3
<1>4. ASSUME NEW d \in Clients, NEW n \in Names, Answer(d, n) = "routed"
      PROVE  Find(n) \in Listing(d)
  <2>1. n \notin Bootstrap /\ Find(n) # NotFound /\ n \notin Disabled
        /\ (settings.enabled /\ ~local[d] => IsVisible(d, n))
    BY <1>4 DEF Answer
  <2>2. Find(n) \in Visible /\ ExposedName(Find(n)) = n
    BY <2>1, <1>2 DEF Find
  <2> QED
    BY <2>1, <2>2 DEF Listing, Filters
<1> QED
  BY <1>3, <1>4 DEF ListAgreesWithCall

(* ListAgreesWithCall: whatever clients reveal and hide and whatever the   *)
(* upstreams list, a tool that is listed is routed to its own server and a *)
(* name that is routed is a listed tool's, when names are unambiguous.     *)
THEOREM ListAgrees ==
  ASSUME NamesUnambiguous
  PROVE  DisclosureSpec => []ListAgreesWithCall
<1> DEFINE Inv == RegistryInv /\ IndexComplete
<1>1. Init => Inv
  BY InitInv, InitComplete
<1>2. Inv /\ [Next]_registryVars => Inv'
  BY StepInv, StepComplete
<1>3. Inv => ListAgreesWithCall
  BY AgreesFromInv
<1> HIDE DEF Inv
<1> QED
  BY <1>1, <1>2, <1>3, DisclosureImplementsRegistry, PTL DEF Spec

-----------------------------------------------------------------------------
(* Nobody keeps an outdated list untold                                    *)

Links == {"closed", "open", "ready"}

\* A session that has listed is ready; those that share a set have the same.
ClientsOK ==
  /\ link \in [Clients -> Links]
  /\ local \in [Clients -> BOOLEAN]
  /\ timer \in [Clients -> BOOLEAN] /\ told \in [Clients -> BOOLEAN]
  /\ view = [d \in Clients |-> view[d]] /\ unsent = [d \in Clients |-> unsent[d]]
  /\ revealed = [d \in Clients |-> revealed[d]]
  /\ \A d \in Clients : link[d] # "ready" => view[d] = NotListed
  /\ settings.mode = "global" => \A c, d \in Clients : revealed[c] = revealed[d]

ClientInv == RegistryInv /\ AbsentShowsNothing /\ ClientsOK /\ StaleSessionIsTold

LEMMA InitClients == DisclosureInit => ClientInv
<1> SUFFICES ASSUME DisclosureInit PROVE ClientInv
  OBVIOUS
<1>1. Init
  BY DEF DisclosureInit
<1>2. AbsentShowsNothing
  BY <1>1 DEF Init, AbsentShowsNothing, NoEntry
<1>3. ClientsOK
  BY DEF DisclosureInit, ClientsOK, Links
<1>4. StaleSessionIsTold
  BY DEF DisclosureInit, StaleSessionIsTold
<1> QED
  BY <1>1, <1>2, <1>3, <1>4, InitInv DEF ClientInv

\* A listing that nothing of it changed is the same.
LEMMA SameListing ==
  ASSUME NEW d \in Clients, Visible' = Visible, UNCHANGED settings,
         local'[d] = local[d], revealed'[d] = revealed[d]
  PROVE  Listing(d)' = Listing(d)
BY DEF Listing, Filters, IsVisible, Bootstrap

LEMMA SameVisible ==
  ASSUME UNCHANGED registryVars
  PROVE  Visible' = Visible
BY DEF registryVars, Visible

\* What schedule() leaves of the timers.
LEMMA Scheduled ==
  ASSUME ClientsOK, NEW D, Schedule(D)
  PROVE  /\ timer' \in [Clients -> BOOLEAN]
         /\ \A d \in Clients : timer[d] \/ (d \in D /\ link[d] = "ready") => timer'[d]
BY DEF Schedule, ClientsOK

\* The registry changes: if it does, it calls its listeners.
LEMMA RegistryStepTold ==
  ASSUME ClientInv,
         \/ \E s \in Servers, visible \in BOOLEAN, list \in Lists :
              SetServerEntry(s, visible, list)
         \/ \E r \in CustomTools : SetCustomTools(customs \cup {r}),
         TellClients
  PROVE  ClientsOK' /\ StaleSessionIsTold'
<1>1. ~notified' => Visible' = Visible
  BY QuietServerStep, QuietCustomStep DEF ClientInv
<1>2. UNCHANGED <<settings, revealed, link, local, told, unsent, view>>
  BY DEF TellClients, clientVars
<1>3. /\ timer' \in [Clients -> BOOLEAN]
      /\ \A d \in Clients : timer[d] \/ (notified' /\ link[d] = "ready") => timer'[d]
  BY Scheduled DEF TellClients, ClientInv
<1>4. ClientsOK'
  BY <1>2, <1>3 DEF ClientInv, ClientsOK
<1>5. StaleSessionIsTold'
  <2> SUFFICES ASSUME NEW d \in Clients, link[d] = "ready", view[d] # NotListed,
                      view[d] # Listing(d)', ~notified'
               PROVE  timer'[d] \/ told[d] \/ unsent[d] = Listing(d)'
    BY <1>2, <1>3 DEF StaleSessionIsTold
  <2>1. Listing(d)' = Listing(d)
    BY <1>1, <1>2, SameListing
  <2> QED
    BY <2>1, <1>3 DEF ClientInv, StaleSessionIsTold
<1> QED
  BY <1>4, <1>5

\* A revealed set changes: those who share it hear of it.
LEMMA RevealedStepTold ==
  ASSUME ClientInv, NEW c \in Clients, NEW R, Becomes(c, R)
  PROVE  ClientsOK' /\ StaleSessionIsTold'
<1> DEFINE D == IF R # revealed[c] THEN SharedWith(c) ELSE {}
<1>1. UNCHANGED <<registryVars, settings, link, local, told, unsent, view>>
  BY DEF Becomes, clientVars
<1>2. /\ revealed' = [d \in Clients |-> revealed'[d]]
      /\ \A d \in Clients : revealed'[d] = IF settings.mode = "global" \/ d = c
                                           THEN R ELSE revealed[d]
  BY DEF Becomes
<1>3. /\ timer' \in [Clients -> BOOLEAN]
      /\ \A d \in Clients : timer[d] \/ (d \in D /\ link[d] = "ready") => timer'[d]
  BY Scheduled DEF Becomes, ClientInv
<1>4. ClientsOK'
  BY <1>1, <1>2, <1>3 DEF ClientInv, ClientsOK
<1>5. \A d \in Clients : d \notin D => revealed'[d] = revealed[d]
  BY <1>2 DEF SharedWith, ClientInv, ClientsOK
<1> HIDE DEF D
<1>6. StaleSessionIsTold'
  <2> SUFFICES ASSUME NEW d \in Clients, link[d] = "ready", view[d] # NotListed,
                      view[d] # Listing(d)', d \notin D
               PROVE  timer'[d] \/ told[d] \/ unsent[d] = Listing(d)'
    BY <1>1, <1>3 DEF StaleSessionIsTold
  <2>1. Visible' = Visible
    BY <1>1, SameVisible
  <2>2. Listing(d)' = Listing(d)
    BY <1>1, <1>5, <2>1, SameListing
  <2> QED
    BY <2>2, <1>3 DEF ClientInv, StaleSessionIsTold
<1> QED
  BY <1>4, <1>6

\* A session opens, is initialized, lists, fires its timer, or closes.
LEMMA SessionStepTold ==
  ASSUME ClientInv, NEW c \in Clients,
         Open(c) \/ Initialized(c) \/ ListTools(c) \/ Fire(c) \/ Close(c)
  PROVE  ClientsOK' /\ StaleSessionIsTold'
<1>1. UNCHANGED registryVars /\ UNCHANGED settings
  BY DEF Open, Initialized, ListTools, Fire, Close
<1>2. Visible' = Visible
  BY <1>1, SameVisible
<1>3. ClientsOK'
  <2>1. CASE Open(c)
    BY <2>1, <1>1 DEF Open, ClientInv, ClientsOK, Links
  <2>2. CASE Initialized(c)
    BY <2>2, <1>1 DEF Initialized, ClientInv, ClientsOK, Links
  <2>3. CASE ListTools(c)
    BY <2>3, <1>1 DEF ListTools, ClientInv, ClientsOK, Links
  <2>4. CASE Fire(c)
    BY <2>4, <1>1 DEF Fire, ClientInv, ClientsOK, Links
  <2>5. CASE Close(c)
    BY <2>5, <1>1 DEF Close, ClientInv, ClientsOK, Links
  <2> QED
    BY <2>1, <2>2, <2>3, <2>4, <2>5
<1>4. ASSUME NEW d \in Clients \ {c}
      PROVE  /\ link'[d] = link[d] /\ view'[d] = view[d] /\ timer'[d] = timer[d]
             /\ told'[d] = told[d] /\ unsent'[d] = unsent[d]
             /\ local'[d] = local[d] /\ revealed'[d] = revealed[d]
  BY DEF Open, Initialized, ListTools, Fire, Close, ClientInv, ClientsOK
<1>5. ASSUME NEW d \in Clients \ {c}, link'[d] = "ready", view'[d] # NotListed,
             view'[d] # Listing(d)'
      PROVE  timer'[d] \/ told'[d] \/ unsent'[d] = Listing(d)'
  <2>1. Listing(d)' = Listing(d)
    BY <1>1, <1>2, <1>4, SameListing
  <2> QED
    BY <1>4, <1>5, <2>1 DEF ClientInv, StaleSessionIsTold
<1>6. ASSUME link'[c] = "ready", view'[c] # NotListed, view'[c] # Listing(c)'
      PROVE  timer'[c] \/ told'[c] \/ unsent'[c] = Listing(c)'
  <2>1. CASE Open(c)
    BY <2>1, <1>6 DEF Open, ClientInv, ClientsOK
  <2>2. CASE Initialized(c)
    BY <2>2, <1>6 DEF Initialized, ClientInv, ClientsOK
  <2>3. CASE ListTools(c)
    <3>1. view'[c] = Listing(c) /\ UNCHANGED <<local, revealed>>
      BY <2>3 DEF ListTools, ClientInv, ClientsOK
    <3> QED
      BY <3>1, <1>1, <1>2, <1>6, SameListing
  <2>4. CASE Fire(c)
    <3>1. Listing(c)' = Listing(c) /\ UNCHANGED <<link, view>>
      BY <2>4, <1>1, <1>2, SameListing DEF Fire
    <3>2. told'[c] \/ unsent'[c] = Listing(c)
      BY <2>4, <1>6 DEF Fire, ClientInv, ClientsOK
    <3> QED
      BY <3>1, <3>2
  <2>5. CASE Close(c)
    BY <2>5, <1>6 DEF Close, ClientInv, ClientsOK
  <2> QED
    BY <2>1, <2>2, <2>3, <2>4, <2>5
<1>7. StaleSessionIsTold'
  BY <1>5, <1>6 DEF StaleSessionIsTold
<1> QED
  BY <1>3, <1>7

LEMMA StepClients == ClientInv /\ [DisclosureNext]_vars => ClientInv'
<1> SUFFICES ASSUME ClientInv, [DisclosureNext]_vars
             PROVE  ClientInv'
  OBVIOUS
<1>1. [Next]_registryVars
  BY DisclosureStepIsRegistryStep DEF ClientInv, RegistryInv
<1>2. RegistryInv' /\ AbsentShowsNothing'
  BY <1>1, StepInv, AbsentStep DEF ClientInv, RegistryInv
<1>3. ClientsOK' /\ StaleSessionIsTold'
  <2>1. CASE UNCHANGED vars
    <3>1. UNCHANGED registryVars
          /\ UNCHANGED <<settings, revealed, link, local, told, unsent, view, timer>>
      BY <2>1 DEF vars, clientVars
    <3>2. \A d \in Clients : Listing(d)' = Listing(d)
      BY <3>1, SameVisible, SameListing
    <3> QED
      BY <3>1, <3>2 DEF ClientInv, ClientsOK, StaleSessionIsTold
  <2>2. CASE Broadcast
    <3>1. UNCHANGED registryVars
          /\ UNCHANGED <<settings, revealed, link, local, told, unsent, view>>
      BY <2>2 DEF Broadcast, clientVars
    <3>2. /\ timer' \in [Clients -> BOOLEAN]
          /\ \A d \in Clients : timer[d] \/ link[d] = "ready" => timer'[d]
      BY <2>2, Scheduled DEF Broadcast, ClientInv
    <3> QED
      BY <3>1, <3>2 DEF ClientInv, ClientsOK, StaleSessionIsTold
  <2> QED
    BY <2>1, <2>2, DisclosureSteps, RegistryStepTold, RevealedStepTold, SessionStepTold
<1> QED
  BY <1>2, <1>3 DEF ClientInv

(* StaleSessionIsTold: no client keeps an outdated list without having     *)
(* been told or being about to be, for any clients, servers and tools.     *)
THEOREM StaleTold == DisclosureSpec => []StaleSessionIsTold
<1>1. ClientInv => StaleSessionIsTold
  BY DEF ClientInv
<1> QED
  BY InitClients, StepClients, <1>1, PTL DEF DisclosureSpec

-----------------------------------------------------------------------------
(* The runtime: the registries mirror the sessions                         *)

\* The lists that may be published: an upstream's, or none.
LEMMA ListsAreSequences ==
  /\ <<>> \in Lists
  /\ \A list \in Lists : list \in Seq(UpstreamTools)
<1>1. \A n \in 0 .. MaxList : [1 .. n -> UpstreamTools] \subseteq Seq(UpstreamTools)
  BY ListAssumption
<1>2. <<>> \in [1 .. 0 -> UpstreamTools] /\ 0 \in 0 .. MaxList
  BY ListAssumption
<1> QED
  BY <1>1, <1>2 DEF Lists

\* An entry made of a list has the length of the list.
LEMMA EntryLength ==
  ASSUME NEW s, NEW visible, NEW list \in Lists
  PROVE  Len(Entry(s, visible, list).tools) = Len(list)
<1> DEFINE tools == [i \in DOMAIN list |-> Registered(s, list[i])]
<1>1. list \in Seq(UpstreamTools)
  BY ListsAreSequences
<1>2. DOMAIN list = 1 .. Len(list) /\ Len(list) \in Nat
  BY <1>1, LenProperties
<1>3. Len(tools) = Len(list)
  BY <1>2
<1>4. Entry(s, visible, list).tools = tools
  BY DEF Entry
<1> QED
  BY <1>3, <1>4

\* What the runtime publishes of a session is a list, and empty when the registry
\* would not show it.
LEMMA PublishedLists ==
  ASSUME NEW st, NEW t \in Lists \cup {NoTools}
  PROVE  /\ Cached(t) \in Lists /\ Published(st, t) \in Lists
         /\ IsServerVisible(st) <=> st \in {"connected", "auth_expired"}
         /\ IsServerVisible(st) \in BOOLEAN
         /\ Published(st, t) = IF IsServerVisible(st) THEN Cached(t) ELSE <<>>
BY ListsAreSequences DEF Cached, Published, KeepsPublishedTools, IsServerVisible

SessionsOK ==
  /\ sStatus \in [Servers -> Statuses]
  /\ sTools \in [Servers -> Lists \cup {NoTools}]
  /\ statusOf = sStatus
  /\ countOf = [s \in Servers |-> countOf[s]]
  /\ life = "over" => AllStopped

MirrorInv == RegistryInv /\ AbsentShowsNothing /\ SessionsOK /\ RegistriesMirrorSessions

\* The steps of the runtime, by what they do to the registries: a session moves
\* and both are updated, a late list is cached unseen, or neither is touched.
Updates(s, st, t) ==
  /\ life # "over" /\ UNCHANGED life
  /\ SessionMoves(s, st, t)
  /\ statusOf' = [statusOf EXCEPT ![s] = st]
  /\ countOf' = [countOf EXCEPT ![s] = Len(Published(st, t))]
  /\ SyncToolRegistry(s)

LEMMA StatusEventUpdates ==
  ASSUME SessionsOK, NEW s \in Servers, StatusEvent(s)
  PROVE  \E st \in Statuses, t \in Lists \cup {NoTools} : Updates(s, st, t)
<1>1. PICK st \in Statuses, t \in ListsOf(s) : SessionMoves(s, st, t) /\ Session(s)!Change(st)
  BY DEF StatusEvent
<1>2. t \in Lists \cup {NoTools}
  BY DEF SessionsOK, ListsOf
<1>3. sStatus'[s] = st /\ sTools'[s] = t
  BY <1>1 DEF SessionMoves, SessionsOK
<1>4. sStatus'[s] \in Session(s)!Allowed[statusOf[s]]
  BY <1>1, <1>3 DEF Session!Change, SessionsOK
<1>5. /\ statusOf' = [statusOf EXCEPT ![s] = st]
      /\ countOf' = [countOf EXCEPT ![s] = Len(Published(st, t))]
  BY <1>3, <1>4 DEF StatusEvent, UpdateStatus
<1>6. Updates(s, st, t)
  BY <1>1, <1>5 DEF StatusEvent, Updates
<1> QED
  BY <1>2, <1>6

LEMMA ToolsEventUpdates ==
  ASSUME SessionsOK, NEW s \in Servers, ToolsEvent(s)
  PROVE  \E st \in Statuses, t \in Lists \cup {NoTools} : Updates(s, st, t)
<1>1. PICK t \in Lists : SessionMoves(s, "connected", t) /\ Session(s)!Reload
  BY DEF ToolsEvent
<1>2. sStatus[s] = "connected" /\ sTools'[s] = t
  BY <1>1 DEF SessionMoves, SessionsOK, Session!Reload
<1>3. statusOf' = [statusOf EXCEPT ![s] = "connected"]
  BY <1>2 DEF ToolsEvent, UpdateCount, SessionsOK
<1>4. countOf' = [countOf EXCEPT ![s] = Len(Published("connected", t))]
  BY <1>2 DEF ToolsEvent, UpdateCount, Published, KeepsPublishedTools
<1>5. Updates(s, "connected", t)
  BY <1>1, <1>3, <1>4 DEF ToolsEvent, Updates
<1> QED
  BY <1>5 DEF Statuses

\* A late list does not count: its session is starting or stopped.
LEMMA LateListUnseen ==
  ASSUME NEW s \in Servers, LateList(s), SessionsOK
  PROVE  /\ sStatus[s] \in {"starting", "stopped"}
         /\ \E t \in Lists : sTools' = [sTools EXCEPT ![s] = t]
         /\ sStatus' = sStatus
         /\ UNCHANGED <<statusVars, registryVars, life, cacheVars>>
<1>1. PICK t \in Lists : SessionMoves(s, sStatus[s], t) /\ Session(s)!LateList
  BY DEF LateList
<1>2. sStatus' = sStatus
  BY <1>1 DEF SessionMoves, SessionsOK
<1> QED
  BY <1>1, <1>2 DEF SessionMoves, Session!LateList, LateList

\* The other steps leave the sessions and what mirrors them alone.
LEMMA OtherSteps ==
  ASSUME \/ DetachWriter \/ Dispose \/ Detach \/ Renamed \/ WriteFails \/ Settles
         \/ UNCHANGED runtimeVars
  PROVE  /\ UNCHANGED <<sStatus, sTools, statusVars, registryVars>>
         /\ life' = "over" => life = "over" \/ AllStopped
BY DEF DetachWriter, Dispose, Detach, Renamed, WriteFails, Settles, runtimeVars,
       sessionVars

LEMMA CustomResolves ==
  ASSUME RegistryInv, NEW r \in CustomTools, CustomToolResolves(r)
  PROVE  /\ SetCustomTools(customs \cup {r}) /\ customs \cup {r} \in SUBSET CustomTools
         /\ UNCHANGED <<sessionVars, statusVars, life>> /\ UNCHANGED entries
BY DEF CustomToolResolves, SetCustomTools, RegistryInv

\* To the registry the runtime is one caller of its operations.
LEMMA RuntimeStepIsRegistryStep ==
  ASSUME RegistryInv, SessionsOK, [RuntimeNext]_runtimeVars
  PROVE  [Next]_registryVars
<1>1. ASSUME NEW s \in Servers, NEW st \in Statuses, NEW t \in Lists \cup {NoTools},
             Updates(s, st, t)
      PROVE  Next
  <2>1. SetServerEntry(s, IsServerVisible(st), Published(st, t))
    BY <1>1 DEF Updates, SyncToolRegistry, SessionMoves, SessionsOK
  <2> QED
    BY <2>1, PublishedLists DEF Next
<1>2. ASSUME NEW s \in Servers, LateList(s)
      PROVE  UNCHANGED registryVars
  BY <1>2 DEF LateList
<1>3. ASSUME NEW r \in CustomTools, CustomToolResolves(r)
      PROVE  Next
  BY <1>3, CustomResolves DEF Next
<1> QED
  BY <1>1, <1>2, <1>3, StatusEventUpdates, ToolsEventUpdates, OtherSteps DEF RuntimeNext

LEMMA InitMirror == RuntimeInit => MirrorInv
<1> SUFFICES ASSUME RuntimeInit PROVE MirrorInv
  OBVIOUS
<1>1. RegistryInv /\ entries = [s \in Servers |-> NoEntry]
  BY InitInv DEF RuntimeInit, Init
<1>2. AbsentShowsNothing
  BY <1>1 DEF AbsentShowsNothing, NoEntry
<1>3. SessionsOK
  BY DEF RuntimeInit, SessionsOK, Statuses
<1>4. RegistriesMirrorSessions
  <2>1. Shown(NoEntry) = <<>> /\ Len(<<>>) = 0
    BY DEF Shown, NoEntry
  <2> QED
    BY <1>1, <2>1 DEF RuntimeInit, RegistriesMirrorSessions
<1> QED
  BY <1>1, <1>2, <1>3, <1>4 DEF MirrorInv

LEMMA UpdateMirrors ==
  ASSUME MirrorInv, NEW s \in Servers, NEW st \in Statuses, NEW t \in Lists \cup {NoTools},
         Updates(s, st, t)
  PROVE  SessionsOK' /\ RegistriesMirrorSessions'
<1> DEFINE P == Published(st, t)
           e == Entry(s, IsServerVisible(st), P)
<1>1. /\ sStatus' = [sStatus EXCEPT ![s] = st] /\ sTools' = [sTools EXCEPT ![s] = t]
      /\ statusOf' = [statusOf EXCEPT ![s] = st]
      /\ countOf' = [countOf EXCEPT ![s] = Len(P)]
      /\ life # "over" /\ UNCHANGED life
  BY DEF Updates, SessionMoves
<1>2. entries' = [entries EXCEPT ![s] = e]
  BY <1>1 DEF Updates, SyncToolRegistry, SetServerEntry, MirrorInv, SessionsOK
<1>3. SessionsOK'
  BY <1>1 DEF MirrorInv, SessionsOK
<1>4. /\ Len(Shown(e)) = Len(P)
      /\ Shown(e) = IF st \in {"connected", "auth_expired"}
                    THEN Entry(s, TRUE, Cached(t)).tools ELSE <<>>
  <2>1. CASE IsServerVisible(st)
    <3>1. Shown(e) = e.tools /\ Len(e.tools) = Len(P)
      BY <2>1, PublishedLists, EntryLength DEF Shown, Entry
    <3>2. P = Cached(t) /\ e.tools = Entry(s, TRUE, Cached(t)).tools
      BY <2>1, PublishedLists DEF Entry
    <3> QED
      BY <3>1, <3>2, <2>1, PublishedLists
  <2>2. CASE ~IsServerVisible(st)
    <3>1. Shown(e) = <<>>
      BY <2>2 DEF Shown, Entry
    <3> QED
      BY <3>1, <2>2, PublishedLists
  <2> QED
    BY <2>1, <2>2, PublishedLists
<1> HIDE DEF e, P
<1>5. RegistriesMirrorSessions'
  <2> SUFFICES ASSUME NEW q \in Servers
               PROVE  /\ statusOf'[q] = sStatus'[q]
                      /\ countOf'[q] = Len(Shown(entries'[q]))
                      /\ Shown(entries'[q]) =
                           IF sStatus'[q] \in {"connected", "auth_expired"}
                           THEN Entry(q, TRUE, Cached(sTools'[q])).tools ELSE <<>>
    BY DEF RegistriesMirrorSessions
  <2>1. CASE q = s
    <3>1. /\ statusOf'[q] = st /\ sStatus'[q] = st /\ sTools'[q] = t
          /\ countOf'[q] = Len(P) /\ entries'[q] = e
      BY <2>1, <1>1, <1>2 DEF MirrorInv, SessionsOK, RegistryInv, EntriesOwn
    <3> QED
      BY <2>1, <3>1, <1>4
  <2>2. CASE q # s
    <3>1. /\ statusOf'[q] = statusOf[q] /\ sStatus'[q] = sStatus[q]
          /\ sTools'[q] = sTools[q]
          /\ countOf'[q] = countOf[q] /\ entries'[q] = entries[q]
      BY <2>2, <1>1, <1>2 DEF MirrorInv, SessionsOK, RegistryInv, EntriesOwn
    <3> QED
      BY <3>1 DEF MirrorInv, RegistriesMirrorSessions
  <2> QED
    BY <2>1, <2>2
<1> QED
  BY <1>3, <1>5

LEMMA StepMirror == MirrorInv /\ [RuntimeNext]_runtimeVars => MirrorInv'
<1> SUFFICES ASSUME MirrorInv, [RuntimeNext]_runtimeVars
             PROVE  MirrorInv'
  OBVIOUS
<1>1. RegistryInv' /\ AbsentShowsNothing'
  <2>1. [Next]_registryVars
    BY RuntimeStepIsRegistryStep DEF MirrorInv
  <2> QED
    BY <2>1, StepInv, AbsentStep DEF MirrorInv, RegistryInv
<1>2. SessionsOK' /\ RegistriesMirrorSessions'
  <2>1. ASSUME NEW s \in Servers, StatusEvent(s) \/ ToolsEvent(s)
        PROVE  SessionsOK' /\ RegistriesMirrorSessions'
    BY <2>1, StatusEventUpdates, ToolsEventUpdates, UpdateMirrors DEF MirrorInv
  <2>2. ASSUME NEW s \in Servers, LateList(s)
        PROVE  SessionsOK' /\ RegistriesMirrorSessions'
    <3>1. PICK t \in Lists : sTools' = [sTools EXCEPT ![s] = t]
      BY <2>2, LateListUnseen DEF MirrorInv
    <3>2. /\ sStatus[s] \notin {"connected", "auth_expired"} /\ sStatus' = sStatus
          /\ UNCHANGED <<statusOf, countOf, entries, life>>
      BY <2>2, LateListUnseen DEF MirrorInv, statusVars, registryVars
    <3>3. SessionsOK'
      BY <3>1, <3>2 DEF MirrorInv, SessionsOK, AllStopped
    <3>4. \A q \in Servers : q # s => sTools'[q] = sTools[q]
      BY <3>1 DEF MirrorInv, SessionsOK
    <3>5. RegistriesMirrorSessions'
      BY <3>2, <3>4 DEF MirrorInv, RegistriesMirrorSessions
    <3> QED
      BY <3>3, <3>5
  <2>3. ASSUME NEW r \in CustomTools, CustomToolResolves(r)
        PROVE  SessionsOK' /\ RegistriesMirrorSessions'
    <3>1. UNCHANGED <<sStatus, sTools, statusOf, countOf, life, entries>>
      BY <2>3, CustomResolves DEF MirrorInv, sessionVars, statusVars
    <3> QED
      BY <3>1 DEF MirrorInv, SessionsOK, AllStopped, RegistriesMirrorSessions
  <2>4. CASE \/ DetachWriter \/ Dispose \/ Detach \/ Renamed \/ WriteFails \/ Settles
             \/ UNCHANGED runtimeVars
    <3>1. /\ UNCHANGED <<sStatus, sTools, statusOf, countOf, entries>>
          /\ life' = "over" => life = "over" \/ AllStopped
      BY <2>4, OtherSteps DEF statusVars, registryVars
    <3> QED
      BY <3>1 DEF MirrorInv, SessionsOK, AllStopped, RegistriesMirrorSessions
  <2> QED
    BY <2>1, <2>2, <2>3, <2>4 DEF RuntimeNext
<1> QED
  BY <1>1, <1>2 DEF MirrorInv

(* The runtime leaves the tool registry one: every behaviour of            *)
(* GatewayRuntime is one of ToolRegistry.                                  *)
THEOREM RuntimeImplementsRegistry == RuntimeSpec => Spec
<1>1. RuntimeInit => Init
  BY DEF RuntimeInit
<1>2. MirrorInv /\ [RuntimeNext]_runtimeVars => [Next]_registryVars
  BY RuntimeStepIsRegistryStep DEF MirrorInv
<1> QED
  BY <1>1, <1>2, InitMirror, StepMirror, PTL DEF RuntimeSpec, Spec

(* RegistriesMirrorSessions: at every turn the status registry agrees with *)
(* the sessions and the tools of a server are published exactly while it   *)
(* is connected or auth_expired, whatever the sessions emit.               *)
THEOREM RegistriesMirror == RuntimeSpec => []RegistriesMirrorSessions
<1>1. MirrorInv => RegistriesMirrorSessions
  BY DEF MirrorInv
<1> QED
  BY InitMirror, StepMirror, <1>1, PTL DEF RuntimeSpec

(* DisposeEmpties: when dispose() is over no upstream's tool is published. *)
THEOREM NothingLeft == RuntimeSpec => []DisposeEmpties
<1>1. MirrorInv => DisposeEmpties
  <2> SUFFICES ASSUME MirrorInv, life = "over", NEW r \in Visible
               PROVE  r \in CustomTools
    BY DEF DisposeEmpties
  <2>1. \A s \in Servers : Shown(entries[s]) = <<>>
    BY DEF MirrorInv, SessionsOK, AllStopped, RegistriesMirrorSessions
  <2>2. \A s \in Servers : ToSet(Shown(entries[s])) = {}
    BY <2>1 DEF ToSet
  <2>3. r \in customs
    BY <2>2 DEF Visible
  <2> QED
    BY <2>3 DEF MirrorInv, RegistryInv
<1> QED
  BY InitMirror, StepMirror, <1>1, PTL DEF RuntimeSpec

-----------------------------------------------------------------------------
(* The cache follows the registry                                          *)

\* A write under way that nothing has overtaken writes what the registry lists.
CacheInv ==
  /\ life \in {"up", "draining", "disposing", "over"}
  /\ writing \in {"idle", "under way", "settling"}
  /\ dirty \in BOOLEAN /\ failed \in BOOLEAN
  /\ writing = "idle" => ~dirty
  /\ life = "up" /\ writing # "idle" /\ ~dirty => snapshot = Visible
  /\ writing = "settling" /\ ~failed => cache = snapshot
  /\ CacheFollows

\* A change of the registry, of which the writer is told.
LEMMA ChangeTold ==
  ASSUME CacheInv, TellWriter, UNCHANGED life, notified' \in BOOLEAN,
         ~notified' => Visible' = Visible
  PROVE  CacheInv'
<1>1. CASE life = "up" /\ notified' /\ writing = "idle"
  <2>1. /\ writing' = "under way" /\ snapshot' = Visible'
        /\ UNCHANGED <<dirty, failed, cache>>
    BY <1>1 DEF TellWriter, Flush
  <2> QED
    BY <1>1, <2>1 DEF CacheInv, CacheFollows
<1>2. CASE life = "up" /\ notified' /\ writing # "idle"
  <2>1. dirty' = TRUE /\ UNCHANGED <<writing, snapshot, failed, cache>>
    BY <1>2 DEF TellWriter, Flush, Notes
  <2> QED
    BY <1>2, <2>1 DEF CacheInv, CacheFollows
<1>3. CASE ~(life = "up" /\ notified')
  <2>1. UNCHANGED <<writing, snapshot, dirty, failed, cache>>
    BY <1>3 DEF TellWriter
  <2> QED
    BY <1>3, <2>1 DEF CacheInv, CacheFollows
<1> QED
  BY <1>1, <1>2, <1>3

\* A step of the writer, or of its end.
LEMMA WriterStep ==
  ASSUME CacheInv,
         DetachWriter \/ Dispose \/ Detach \/ Renamed \/ WriteFails \/ Settles
  PROVE  CacheInv'
<1>1. Visible' = Visible
  BY OtherSteps, SameVisible
<1>2. CASE DetachWriter
  BY <1>1, <1>2 DEF DetachWriter, CacheInv, CacheFollows, cacheVars
<1>3. CASE Dispose
  BY <1>1, <1>3 DEF Dispose, Drained, CacheInv, CacheFollows, cacheVars
<1>4. CASE Detach
  BY <1>1, <1>4 DEF Detach, CacheInv, CacheFollows, cacheVars
<1>5. CASE Renamed
  BY <1>1, <1>5 DEF Renamed, CacheInv, CacheFollows
<1>6. CASE WriteFails
  BY <1>1, <1>6 DEF WriteFails, CacheInv, CacheFollows
<1>7. CASE Settles
  BY <1>1, <1>7 DEF Settles, CacheInv, CacheFollows
<1> QED
  BY <1>2, <1>3, <1>4, <1>5, <1>6, <1>7

LEMMA StepCache ==
  ASSUME MirrorInv, CacheInv, [RuntimeNext]_runtimeVars
  PROVE  CacheInv'
<1>1. ASSUME NEW s \in Servers, NEW st \in Statuses, NEW t \in Lists \cup {NoTools},
             Updates(s, st, t)
      PROVE  CacheInv'
  <2>1. SetServerEntry(s, IsServerVisible(st), Published(st, t))
    BY <1>1 DEF Updates, SyncToolRegistry, SessionMoves, MirrorInv, SessionsOK
  <2>2. ~notified' => Visible' = Visible
    BY <2>1, PublishedLists, QuietServerStep DEF MirrorInv
  <2>3. notified' \in BOOLEAN
    BY <2>1, PublishedLists, EntryActions DEF MirrorInv
  <2> QED
    BY <1>1, <2>2, <2>3, ChangeTold DEF Updates, SyncToolRegistry
<1>2. ASSUME NEW r \in CustomTools, CustomToolResolves(r)
      PROVE  CacheInv'
  <2>1. SetCustomTools(customs \cup {r}) /\ UNCHANGED life
    BY <1>2, CustomResolves DEF MirrorInv
  <2>2. ~notified' => Visible' = Visible
    BY <2>1, QuietCustomStep
  <2>3. notified' \in BOOLEAN
    BY <2>1 DEF SetCustomTools
  <2> QED
    BY <1>2, <2>1, <2>2, <2>3, ChangeTold DEF CustomToolResolves
<1>3. ASSUME NEW s \in Servers, LateList(s)
      PROVE  CacheInv'
  <2>1. UNCHANGED registryVars /\ UNCHANGED <<life, writing, snapshot, dirty, failed, cache>>
    BY <1>3 DEF LateList, cacheVars
  <2> QED
    BY <2>1, SameVisible DEF CacheInv, CacheFollows
<1>4. CASE UNCHANGED runtimeVars
  <2>1. UNCHANGED registryVars /\ UNCHANGED <<life, writing, snapshot, dirty, failed, cache>>
    BY <1>4 DEF runtimeVars, cacheVars
  <2> QED
    BY <2>1, SameVisible DEF CacheInv, CacheFollows
<1> QED
  BY <1>1, <1>2, <1>3, <1>4, StatusEventUpdates, ToolsEventUpdates, WriterStep
     DEF RuntimeNext, MirrorInv

LEMMA InitCache == RuntimeInit => CacheInv
<1> SUFFICES ASSUME RuntimeInit PROVE CacheInv
  OBVIOUS
<1>1. entries = [s \in Servers |-> NoEntry] /\ customs = {}
  BY DEF RuntimeInit, Init
<1>2. Visible = {}
  BY <1>1 DEF Visible, Shown, NoEntry, ToSet
<1> QED
  BY <1>2 DEF RuntimeInit, CacheInv, CacheFollows

(* CacheFollows: however changes of the registry fall between the snapshot *)
(* of a write, its rename and its settling, and however writes fail, an    *)
(* idle writer whose last write did not fail has left what is listed.      *)
THEOREM CacheUpToDate == RuntimeSpec => []CacheFollows
<1> DEFINE Inv == MirrorInv /\ CacheInv
<1>1. RuntimeInit => Inv
  BY InitMirror, InitCache
<1>2. Inv /\ [RuntimeNext]_runtimeVars => Inv'
  BY StepMirror, StepCache
<1>3. Inv => CacheFollows
  BY DEF CacheInv
<1> HIDE DEF Inv
<1> QED
  BY <1>1, <1>2, <1>3, PTL DEF RuntimeSpec
=============================================================================
