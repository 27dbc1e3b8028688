--------------------------- MODULE ServiceProofs ---------------------------
(***************************************************************************)
(* Five parts for every value of their constants.                          *)
(*                                                                         *)
(* The files of the sales module, for any rows, any depth of nested calls, *)
(* and any place where an import is left by an exception or a crash: leads *)
(* are kept, and no lead is stored without its company, contact and        *)
(* campaign; work items are for stored leads, stay closed once closed, and *)
(* are worked on in the order of their dates.                              *)
(*                                                                         *)
(* The event bus, for any handlers, intents and depth: an event arrives,   *)
(* and once, at each handler that is there for it.  The decision engine,   *)
(* for any rules: an evaluation is one of the rules as they were.  The     *)
(* program, for any modules: it comes up complete, and what has ended in   *)
(* it stays so.  The builders of the value objects, for any kinds, values  *)
(* and lengths: what was built keeps its values and entries.               *)
(***************************************************************************)
EXTENDS LeadIntake, EventBus, DecisionEngine, Bootstrap, Builders,
        SequenceTheorems, FiniteSetTheorems, WellFoundedInduction, TLAPS

-----------------------------------------------------------------------------
(* Sequences of anything *)

IsSequence(s) == \E S : s \in Seq(S)

LEMMA AppendAny ==
    ASSUME NEW s, IsSequence(s), NEW f
    PROVE  /\ IsSequence(Append(s, f))
           /\ Len(s) \in Nat /\ DOMAIN s = 1 .. Len(s)
           /\ Len(Append(s, f)) = Len(s) + 1 /\ DOMAIN Append(s, f) = 1 .. Len(s) + 1
           /\ \A i \in 1 .. Len(s) : Append(s, f)[i] = s[i]
           /\ Append(s, f)[Len(s) + 1] = f
           /\ ToSet(Append(s, f)) = ToSet(s) \union {f}
<1>1. PICK S : s \in Seq(S)
  BY DEF IsSequence
<1>2. s \in Seq(S \union {f}) /\ f \in S \union {f}
  BY <1>1
<1> HIDE DEF IsSequence
<1>3. Append(s, f) \in Seq(S \union {f})
  BY <1>2
<1>4. /\ Len(s) \in Nat /\ DOMAIN s = 1 .. Len(s)
      /\ Len(Append(s, f)) = Len(s) + 1 /\ DOMAIN Append(s, f) = 1 .. Len(s) + 1
      /\ \A i \in 1 .. Len(s) : Append(s, f)[i] = s[i]
      /\ Append(s, f)[Len(s) + 1] = f
  BY <1>2, <1>3
<1>5. ToSet(Append(s, f)) = ToSet(s) \union {f}
  BY <1>4 DEF ToSet
<1> QED BY <1>3, <1>4, <1>5 DEF IsSequence

LEMMA ExceptAny ==
    ASSUME NEW s, IsSequence(s), NEW n \in DOMAIN s, NEW f
    PROVE  LET t == [s EXCEPT ![n] = f] IN
           /\ IsSequence(t) /\ Len(t) = Len(s) /\ DOMAIN t = DOMAIN s
           /\ t[n] = f /\ \A i \in DOMAIN s : i # n => t[i] = s[i]
<1>1. PICK S : s \in Seq(S)
  BY DEF IsSequence
<1>2. s \in Seq(S \union {f}) /\ f \in S \union {f}
  BY <1>1
<1>3. [s EXCEPT ![n] = f] \in Seq(S \union {f})
  BY <1>2
<1> QED BY <1>2, <1>3 DEF IsSequence

LEMMA FrontAny ==
    ASSUME NEW s, IsSequence(s), s # << >>
    PROVE  /\ IsSequence(Front(s))
           /\ Len(s) \in Nat \ {0} /\ DOMAIN s = 1 .. Len(s)
           /\ Len(Front(s)) = Len(s) - 1 /\ DOMAIN Front(s) = 1 .. Len(s) - 1
           /\ \A i \in 1 .. Len(s) - 1 : Front(s)[i] = s[i]
<1>1. PICK S : s \in Seq(S)
  BY DEF IsSequence
<1>2. Len(s) \in Nat \ {0} /\ DOMAIN s = 1 .. Len(s)
  BY <1>1
<1> DEFINE n == Len(s) - 1
<1>3. n \in Nat /\ \A i \in 1 .. n : s[i] \in S
  BY <1>1, <1>2
<1>4. Front(s) = SubSeq(s, 1, n)
  BY DEF Front
<1> HIDE DEF n
<1>5. Front(s) \in Seq(S)
  BY <1>3, <1>4, SubSeqProperties
<1>6. Len(Front(s)) = IF 1 <= n THEN n - 1 + 1 ELSE 0
  BY <1>3, <1>4, SubSeqProperties
<1>7. \A i \in 1 .. n - 1 + 1 : Front(s)[i] = s[1 + i - 1]
  BY <1>3, <1>4, SubSeqProperties
<1>8. Len(Front(s)) = n /\ DOMAIN Front(s) = 1 .. n /\ \A i \in 1 .. n : Front(s)[i] = s[i]
  BY <1>3, <1>5, <1>6, <1>7
<1> QED BY <1>2, <1>5, <1>8 DEF IsSequence, n

-----------------------------------------------------------------------------
(* The invariant: while imports do not overlap, an import is the innermost   *)
(* call, it knows all that is stored, its leads refer to what it knows, and  *)
(* what it has saved so far is what it knows.                                *)

ImportPoints == {"open", "LeadImported", "companies", "contacts", "campaigns", "leads"}

FrameShape(f) ==
    \/ /\ f.call = "import" /\ DOMAIN f = {"call", "at", "known", "leads"}
       /\ f.at \in ImportPoints
       /\ IsSequence(f.leads)
    \/ f.call = "intake" /\ DOMAIN f = {"call", "at", "imported", "queue", "top"}

Extends(g, h) == \A k \in DOMAIN h : k \in DOMAIN g /\ g[k] = h[k]

Refers(leads, tables) ==
    \A lead \in leads, p \in Parties : lead.of[p] \in Range(tables[p]) \union {Missing}

Saved(point) ==
    CASE point = "contacts"  -> {"companies"}
      [] point = "campaigns" -> {"companies", "contacts"}
      [] point = "leads"     -> Parties
      [] OTHER               -> {}

Consistent(f, tables) ==
    /\ \A p \in Parties : Extends(f.known[p], tables[p])
    /\ Refers(ToSet(f.leads), f.known)
    /\ \A p \in Saved(f.at) : tables[p] = f.known[p]

ImportsOnTop ==
    \A i \in DOMAIN stack :
        Importing(stack[i]) => i = Len(stack) /\ Consistent(stack[i], files)

Shape ==
    /\ IsSequence(stack)
    /\ DOMAIN files = Parties \union {"leads"}
    /\ \A i \in DOMAIN stack : FrameShape(stack[i])

FilesInv ==
    /\ Shape
    /\ overlapped \/ (Refers(files.leads, files) /\ ImportsOnTop)

LEMMA FilesInit == IntakeInit => FilesInv
<1> SUFFICES ASSUME IntakeInit PROVE FilesInv
  OBVIOUS
<1>1. stack = << >> /\ files.leads = {} /\ DOMAIN files = Parties \union {"leads"}
  BY DEF IntakeInit, Parties
<1>2. << >> \in Seq({}) /\ DOMAIN << >> = {}
  OBVIOUS
<1> QED BY <1>1, <1>2 DEF FilesInv, Shape, IsSequence, ImportsOnTop, Refers

LEMMA ToSetEmpty == ToSet(<< >>) = {}
BY DEF ToSet

\* The innermost call is a frame.
LEMMA TopShape ==
    ASSUME Shape, Busy
    PROVE  /\ Len(stack) \in Nat \ {0} /\ DOMAIN stack = 1 .. Len(stack)
           /\ Top = stack[Len(stack)] /\ FrameShape(Top)
<1>1. stack # << >>
  BY DEF Busy
<1>2. Len(stack) \in Nat \ {0} /\ DOMAIN stack = 1 .. Len(stack)
  BY <1>1, FrontAny DEF Shape
<1> QED BY <1>2 DEF Shape, Top, Last

-----------------------------------------------------------------------------
(* Calls end, or an intake goes on: no import is begun and none goes on.      *)

NoImportMoves ==
    /\ IsSequence(stack') /\ DOMAIN stack' = 1 .. Len(stack')
    /\ Len(stack') \in Nat /\ Len(stack') <= Len(stack)
    /\ \A i \in 1 .. Len(stack') :
           FrameShape(stack'[i]) /\ (stack'[i] = stack[i] \/ stack'[i].call = "intake")

LEMMA CallsOver ==
    ASSUME FilesInv, NoImportMoves,
           DOMAIN files' = DOMAIN files, \A p \in Parties : files'[p] = files[p],
           overlapped \/ Refers(files'.leads, files), overlapped' = overlapped
    PROVE  FilesInv'
<1>1. Len(stack) \in Nat /\ DOMAIN stack = 1 .. Len(stack)
  BY AppendAny DEF FilesInv, Shape
<1>2. Shape'
  BY DEF FilesInv, Shape, NoImportMoves
<1>3. ASSUME ~overlapped PROVE Refers(files'.leads, files')
  BY <1>3 DEF Refers
<1>4. ASSUME ~overlapped PROVE ImportsOnTop'
  <2> SUFFICES ASSUME NEW i \in 1 .. Len(stack'), stack'[i].call = "import"
               PROVE  i = Len(stack') /\ Consistent(stack'[i], files')
    BY DEF ImportsOnTop, Importing, NoImportMoves
  <2>1. stack'[i] = stack[i] /\ i \in DOMAIN stack
    BY <1>1 DEF NoImportMoves
  <2>2. i = Len(stack) /\ Consistent(stack[i], files)
    BY <1>4, <2>1 DEF FilesInv, ImportsOnTop, Importing
  <2>3. Saved(stack[i].at) \subseteq Parties
    BY DEF Saved, Parties
  <2>4. i = Len(stack')
    <3> DEFINE m == Len(stack)
               n == Len(stack')
    <3>1. m \in Nat /\ n \in Nat /\ n <= m /\ i \in 1 .. n /\ i = m
      BY <1>1, <2>2 DEF NoImportMoves
    <3> HIDE DEF m, n
    <3>2. i = n
      BY <3>1
    <3> QED BY <3>2 DEF n
  <2>5. Consistent(stack[i], files')
    BY <2>2, <2>3 DEF Consistent
  <2> QED BY <2>1, <2>4, <2>5
<1>5. CASE overlapped
  BY <1>2, <1>5 DEF FilesInv
<1>6. CASE ~overlapped
  BY <1>2, <1>3, <1>4, <1>6, Zenon DEF FilesInv
<1> QED BY <1>5, <1>6

\* The call below goes on, and if it moves it is an intake.
LEMMA GoesOnBelow ==
    ASSUME Shape, Busy, NEW g,
           \/ stack' = Front(stack)
           \/ /\ Front(stack) # << >> /\ stack' = [Front(stack) EXCEPT ![Len(Front(stack))] = g]
              /\ FrameShape(g) /\ g.call = "intake"
    PROVE  NoImportMoves
<1> DEFINE below == Front(stack)
<1>1. /\ IsSequence(below)
      /\ Len(stack) \in Nat \ {0} /\ DOMAIN stack = 1 .. Len(stack)
      /\ Len(below) = Len(stack) - 1 /\ DOMAIN below = 1 .. Len(stack) - 1
      /\ \A i \in 1 .. Len(stack) - 1 : below[i] = stack[i]
  BY FrontAny DEF Busy, Shape
<1>2. \A i \in 1 .. Len(stack) - 1 : FrameShape(below[i]) /\ below[i] = stack[i]
  BY <1>1 DEF Shape
<1>0. Len(stack) - 1 \in Nat /\ Len(stack) - 1 <= Len(stack)
  BY <1>1
<1>3. CASE stack' = below
  <2>1. IsSequence(stack') /\ Len(stack') = Len(stack) - 1 /\ DOMAIN stack' = 1 .. Len(stack')
    BY <1>1, <1>3
  <2>2. \A i \in 1 .. Len(stack') : FrameShape(stack'[i]) /\ stack'[i] = stack[i]
    BY <1>2, <1>3, <2>1
  <2> QED BY <1>0, <2>1, <2>2 DEF NoImportMoves
<1>4. CASE /\ below # << >> /\ stack' = [below EXCEPT ![Len(below)] = g]
           /\ FrameShape(g) /\ g.call = "intake"
  <2> HIDE DEF below
  <2>1. Len(below) \in DOMAIN below
    BY <1>1, <1>4, FrontAny
  <2>2. /\ IsSequence(stack') /\ Len(stack') = Len(below) /\ DOMAIN stack' = DOMAIN below
        /\ stack'[Len(below)] = g
        /\ \A i \in DOMAIN below : i # Len(below) => stack'[i] = below[i]
    BY <1>1, <1>4, <2>1, ExceptAny
  <2>3. Len(stack') = Len(stack) - 1 /\ DOMAIN stack' = 1 .. Len(stack')
    BY <1>1, <2>2
  <2>4. ASSUME NEW i \in 1 .. Len(stack')
        PROVE  FrameShape(stack'[i]) /\ (stack'[i] = stack[i] \/ stack'[i].call = "intake")
    <3>1. i \in 1 .. Len(stack) - 1 /\ i \in DOMAIN below
      BY <1>1, <2>3
    <3>2. CASE i = Len(below)
      BY <1>4, <2>2, <3>2
    <3>3. CASE i # Len(below)
      BY <1>2, <2>2, <3>1, <3>3
    <3> QED BY <3>2, <3>3
  <2> QED BY <1>0, <2>2, <2>3, <2>4 DEF NoImportMoves
<1> QED BY <1>3, <1>4

\* The innermost call is an intake and goes on.
LEMMA IntakeGoesOn ==
    ASSUME Shape, Busy, NEW g, FrameShape(g), g.call = "intake",
           stack' = [stack EXCEPT ![Len(stack)] = g]
    PROVE  NoImportMoves
<1>1. Len(stack) \in DOMAIN stack /\ DOMAIN stack = 1 .. Len(stack) /\ Len(stack) \in Nat
  BY TopShape
<1>2. /\ IsSequence(stack') /\ Len(stack') = Len(stack) /\ DOMAIN stack' = DOMAIN stack
      /\ stack'[Len(stack)] = g
      /\ \A i \in DOMAIN stack : i # Len(stack) => stack'[i] = stack[i]
  BY <1>1, ExceptAny DEF Shape
<1> QED BY <1>1, <1>2 DEF NoImportMoves, Shape

-----------------------------------------------------------------------------
(* An import is begun, and goes on *)

LEMMA ImportBegins ==
    ASSUME FilesInv, NEW below, IsSequence(below), \A i \in DOMAIN below : FrameShape(below[i]),
           BeginImport(below)
    PROVE  FilesInv'
<1>1. /\ IsSequence(stack') /\ Len(below) \in Nat /\ DOMAIN below = 1 .. Len(below)
      /\ Len(stack') = Len(below) + 1 /\ DOMAIN stack' = 1 .. Len(below) + 1
      /\ \A i \in 1 .. Len(below) : stack'[i] = below[i]
      /\ stack'[Len(below) + 1] = ImportFrame
  BY AppendAny DEF BeginImport
<1>2. /\ ImportFrame.call = "import" /\ ImportFrame.at = "open" /\ ImportFrame.leads = << >>
      /\ DOMAIN ImportFrame = {"call", "at", "known", "leads"}
      /\ \A p \in Parties : ImportFrame.known[p] = files[p]
  BY DEF ImportFrame
<1>3. FrameShape(ImportFrame)
  <2>1. << >> \in Seq({})
    OBVIOUS
  <2> QED BY <1>2, <2>1 DEF FrameShape, ImportPoints, IsSequence
<1>4. files' = files
  BY DEF BeginImport
<1>5. ASSUME NEW i \in DOMAIN stack' PROVE i = Len(stack') \/ (i \in DOMAIN below /\ stack'[i] = below[i])
  BY <1>1
<1>6. Shape'
  BY <1>1, <1>3, <1>4, <1>5 DEF FilesInv, Shape
<1>7. Consistent(ImportFrame, files)
  BY <1>2, ToSetEmpty DEF Consistent, Extends, Refers, Saved
<1>8. CASE overlapped'
  BY <1>6, <1>8 DEF FilesInv
<1>9. CASE ~overlapped'
  <2>1. ~overlapped /\ \A i \in DOMAIN below : ~Importing(below[i])
    BY <1>9, Zenon DEF BeginImport
  <2>2. Refers(files'.leads, files')
    BY <1>4, <2>1 DEF FilesInv
  <2>3. ImportsOnTop'
    BY <1>1, <1>4, <1>5, <1>7, <2>1 DEF ImportsOnTop
  <2> QED BY <1>6, <2>2, <2>3, Zenon DEF FilesInv
<1> QED BY <1>8, <1>9

LEMMA ImportGoesOn ==
    ASSUME FilesInv, Busy, NEW f, FrameShape(f),
           stack' = [stack EXCEPT ![Len(stack)] = f],
           DOMAIN files' = DOMAIN files, overlapped' = overlapped,
           ~overlapped => Refers(files'.leads, files') /\ Consistent(f, files')
    PROVE  FilesInv'
<1>1. Len(stack) \in DOMAIN stack /\ DOMAIN stack = 1 .. Len(stack)
  BY TopShape DEF FilesInv
<1>2. /\ IsSequence(stack') /\ Len(stack') = Len(stack) /\ DOMAIN stack' = DOMAIN stack
      /\ stack'[Len(stack)] = f
      /\ \A i \in DOMAIN stack : i # Len(stack) => stack'[i] = stack[i]
  BY <1>1, ExceptAny DEF FilesInv, Shape
<1>3. Shape'
  BY <1>2 DEF FilesInv, Shape
<1>4. CASE overlapped
  BY <1>3, <1>4 DEF FilesInv
<1>5. CASE ~overlapped
  <2>1. \A i \in DOMAIN stack : i # Len(stack) => ~Importing(stack[i])
    BY <1>5 DEF FilesInv, ImportsOnTop
  <2>2. ImportsOnTop'
    BY <1>2, <1>5, <2>1 DEF ImportsOnTop
  <2> QED BY <1>3, <1>5, <2>2, Zenon DEF FilesInv
<1> QED BY <1>4, <1>5

\* What is known to the import that is the innermost call.
LEMMA TopImport ==
    ASSUME FilesInv, NEW points, TopIs("import", points)
    PROVE  /\ Busy /\ Top.at \in points \intersect ImportPoints
           /\ Top = stack[Len(stack)]
           /\ DOMAIN Top = {"call", "at", "known", "leads"} /\ Top.call = "import"
           /\ IsSequence(Top.leads)
           /\ overlapped \/ (Refers(files.leads, files) /\ Consistent(Top, files))
<1>1. Busy /\ Top.call = "import" /\ Top.at \in points
  BY DEF TopIs
<1>2. Top = stack[Len(stack)] /\ Len(stack) \in DOMAIN stack /\ FrameShape(Top)
  BY <1>1, TopShape DEF FilesInv
<1>3. overlapped \/ (Refers(files.leads, files) /\ Consistent(Top, files))
  BY <1>1, <1>2 DEF FilesInv, ImportsOnTop, Importing
<1> QED BY <1>1, <1>2, <1>3 DEF FrameShape

-----------------------------------------------------------------------------
(* The actions of an import *)

\* What is learnt from a row is added to what was known.
LEMMA Learning ==
    ASSUME NEW known, NEW key, NEW new
    PROVE  /\ Extends(Learnt(known, key, new), known)
           /\ Party(known, key, new) \in Range(Learnt(known, key, new)) \union {Missing}
BY DEF Extends, Learnt, Party, Range

\* The innermost call is an import and goes on.
ImportMoves == Busy /\ \E g : stack' = [stack EXCEPT ![Len(stack)] = g] /\ g.call = "import"

LEMMA ReadRowStep ==
    ASSUME FilesInv, NEW row, ReadRow(row)
    PROVE  FilesInv' /\ ImportMoves
<1> DEFINE id(p) == CASE p = "companies" -> made + 1
                      [] p = "contacts"  -> made + 2
                      [] p = "campaigns" -> made + 3
           learnt == [p \in Parties |-> Learnt(Top.known[p], row[p], id(p))]
           lead == [id |-> made + 4, of |-> [p \in Parties |-> Party(Top.known[p], row[p], id(p))]]
           f == [Top EXCEPT !.known = learnt, !.leads = Append(Top.leads, lead), !.at = "LeadImported"]
<1>1. /\ Busy /\ Top = stack[Len(stack)]
      /\ DOMAIN Top = {"call", "at", "known", "leads"} /\ Top.call = "import"
      /\ IsSequence(Top.leads)
      /\ overlapped \/ (Refers(files.leads, files) /\ Consistent(Top, files))
  BY TopImport DEF ReadRow
<1>2. /\ \A p \in Parties : learnt[p] = Learnt(Top.known[p], row[p], id(p))
      /\ \A p \in Parties : lead.of[p] = Party(Top.known[p], row[p], id(p))
  OBVIOUS
<1>3. stack' = [stack EXCEPT ![Len(stack)] = f]
  <2>1. stack' = [stack EXCEPT ![Len(stack)].known = [p \in Parties |-> Learnt(@[p], row[p], id(p))],
                               ![Len(stack)].leads = Append(@, lead),
                               ![Len(stack)].at = "LeadImported"]
    BY Zenon DEF ReadRow
  <2> HIDE DEF id, lead
  <2> QED BY <1>1, <2>1
<1>4. files' = files /\ overlapped' = overlapped
  BY DEF ReadRow, intakeVars
<1>5. \A p \in Parties : /\ Extends(learnt[p], Top.known[p])
                         /\ lead.of[p] \in Range(learnt[p]) \union {Missing}
  <2> HIDE DEF learnt, lead, id
  <2> QED BY <1>2, Learning
<1> HIDE DEF learnt, lead, id
<1>6. /\ f.call = "import" /\ f.at = "LeadImported" /\ f.known = learnt
      /\ f.leads = Append(Top.leads, lead) /\ DOMAIN f = {"call", "at", "known", "leads"}
  BY <1>1
<1>7. IsSequence(f.leads) /\ ToSet(f.leads) = ToSet(Top.leads) \union {lead}
  BY <1>1, <1>6, AppendAny
<1> HIDE DEF f
<1>8. FrameShape(f)
  BY <1>6, <1>7 DEF FrameShape, ImportPoints
<1>9. ASSUME ~overlapped PROVE Refers(files.leads, files) /\ Consistent(f, files)
  <2>1. Consistent(Top, files) /\ Refers(files.leads, files)
    BY <1>1, <1>9
  <2>2. \A p \in Parties : Extends(learnt[p], files[p])
    BY <1>5, <2>1 DEF Consistent, Extends
  <2>3. \A p \in Parties : Range(Top.known[p]) \subseteq Range(learnt[p])
    BY <1>5 DEF Extends, Range
  <2>4. Refers(ToSet(f.leads), learnt)
    BY <1>5, <1>7, <2>1, <2>3 DEF Consistent, Refers
  <2> QED BY <1>6, <2>1, <2>2, <2>4 DEF Consistent, Saved
<1> QED BY <1>1, <1>3, <1>4, <1>6, <1>8, <1>9, ImportGoesOn DEF ImportMoves

LEMMA EndOfFileStep ==
    ASSUME FilesInv, EndOfFile
    PROVE  FilesInv' /\ ImportMoves
<1> DEFINE f == [Top EXCEPT !.at = "companies"]
<1>1. /\ Busy /\ Top = stack[Len(stack)]
      /\ DOMAIN Top = {"call", "at", "known", "leads"} /\ Top.call = "import"
      /\ IsSequence(Top.leads)
      /\ overlapped \/ (Refers(files.leads, files) /\ Consistent(Top, files))
  BY TopImport DEF EndOfFile
<1>2. stack' = [stack EXCEPT ![Len(stack)] = f]
  BY <1>1 DEF EndOfFile, Goto
<1>3. files' = files /\ overlapped' = overlapped
  BY DEF EndOfFile, intakeVars
<1>4. /\ f.call = "import" /\ f.at = "companies" /\ f.known = Top.known
      /\ f.leads = Top.leads /\ DOMAIN f = {"call", "at", "known", "leads"}
  BY <1>1
<1> HIDE DEF f
<1>5. FrameShape(f)
  BY <1>1, <1>4 DEF FrameShape, ImportPoints
<1>6. ASSUME ~overlapped PROVE Refers(files.leads, files) /\ Consistent(f, files)
  BY <1>1, <1>4, <1>6 DEF Consistent, Saved
<1> QED BY <1>1, <1>2, <1>3, <1>4, <1>5, <1>6, ImportGoesOn DEF ImportMoves

LEMMA SavePartiesStep ==
    ASSUME FilesInv, NEW p \in Parties, SaveParties(p)
    PROVE  /\ FilesInv' /\ ImportMoves
           /\ overlapped \/ Extends(files'[p], files[p])
<1> DEFINE f == [Top EXCEPT !.at = After[p]]
<1>1. /\ Busy /\ Top = stack[Len(stack)] /\ Top.at = p
      /\ DOMAIN Top = {"call", "at", "known", "leads"} /\ Top.call = "import"
      /\ IsSequence(Top.leads)
      /\ overlapped \/ (Refers(files.leads, files) /\ Consistent(Top, files))
  BY TopImport DEF SaveParties
<1>2. stack' = [stack EXCEPT ![Len(stack)] = f]
  BY <1>1 DEF SaveParties, Goto
<1>3. /\ overlapped' = overlapped
      /\ DOMAIN files' = DOMAIN files /\ files'.leads = files.leads
      /\ files'[p] = Top.known[p] /\ \A q \in Parties : q # p => files'[q] = files[q]
  BY DEF SaveParties, FilesInv, Shape, Parties
<1>4. /\ f.call = "import" /\ f.at = After[p] /\ f.known = Top.known
      /\ f.leads = Top.leads /\ DOMAIN f = {"call", "at", "known", "leads"}
  BY <1>1
<1> HIDE DEF f
<1>5. f.at \in ImportPoints /\ Saved(f.at) = Saved(p) \union {p} /\ Saved(p) \subseteq Parties
  BY <1>4 DEF Saved, After, Parties, ImportPoints
<1>6. FrameShape(f)
  BY <1>1, <1>4, <1>5 DEF FrameShape
<1>7. ASSUME ~overlapped
      PROVE  Refers(files'.leads, files') /\ Consistent(f, files') /\ Extends(files'[p], files[p])
  <2>1. Consistent(Top, files) /\ Refers(files.leads, files)
    BY <1>1, <1>7
  <2>2. \A q \in Parties : Extends(Top.known[q], files'[q]) /\ Extends(files'[q], files[q])
    BY <1>3, <2>1 DEF Consistent, Extends
  <2>3. \A q \in Parties : Range(files[q]) \subseteq Range(files'[q])
    BY <2>2 DEF Extends, Range
  <2>4. Refers(files'.leads, files')
    BY <1>3, <2>1, <2>3 DEF Refers
  <2>5. \A q \in Saved(f.at) : files'[q] = Top.known[q]
    BY <1>1, <1>3, <1>5, <2>1 DEF Consistent
  <2> QED BY <1>4, <2>1, <2>2, <2>4, <2>5 DEF Consistent
<1>8. FilesInv'
  BY <1>1, <1>2, <1>3, <1>6, <1>7, ImportGoesOn
<1>9. ImportMoves
  BY <1>1, <1>2, <1>4 DEF ImportMoves
<1> QED BY <1>7, <1>8, <1>9

\* A call that waits for an import is an intake.
LEMMA WaitingIsIntake ==
    ASSUME Shape, Busy, Front(stack) # << >>, Last(Front(stack)).at = "calling"
    PROVE  /\ Last(Front(stack)) = Front(stack)[Len(Front(stack))]
           /\ Last(Front(stack)).call = "intake"
           /\ DOMAIN Last(Front(stack)) = {"call", "at", "imported", "queue", "top"}
<1> DEFINE below == Front(stack)
<1>1. /\ IsSequence(below)
      /\ DOMAIN stack = 1 .. Len(stack) /\ Len(stack) \in Nat \ {0}
      /\ Len(below) = Len(stack) - 1 /\ DOMAIN below = 1 .. Len(stack) - 1
      /\ \A i \in 1 .. Len(stack) - 1 : below[i] = stack[i]
  BY FrontAny DEF Busy, Shape
<1> HIDE DEF below
<1>2. Len(below) \in DOMAIN below /\ DOMAIN below = 1 .. Len(below)
  BY <1>1, FrontAny DEF below
<1>3. FrameShape(below[Len(below)])
  BY <1>1, <1>2 DEF Shape
<1>4. Last(below) = below[Len(below)] /\ Last(below).at = "calling"
  BY DEF Last, below
<1>5. "calling" \notin ImportPoints
  BY DEF ImportPoints
<1> QED BY <1>3, <1>4, <1>5 DEF FrameShape, below

\* An exception leaves the innermost call.
LEMMA UnwindStep ==
    ASSUME Shape, Busy, Unwind
    PROVE  NoImportMoves
<1> DEFINE below == Front(stack)
           g == [Last(below) EXCEPT !.at = "raised"]
<1>1. CASE below # << >> /\ Last(below).at = "calling"
  <2>1. /\ Last(below) = below[Len(below)] /\ Last(below).call = "intake"
        /\ DOMAIN Last(below) = {"call", "at", "imported", "queue", "top"}
    BY <1>1, WaitingIsIntake
  <2>2. stack' = [below EXCEPT ![Len(below)] = g]
    BY <1>1, <2>1 DEF Unwind, Unwound
  <2>3. FrameShape(g) /\ g.call = "intake"
    BY <2>1 DEF FrameShape
  <2> QED BY <1>1, <2>2, <2>3, GoesOnBelow
<1>2. CASE ~(below # << >> /\ Last(below).at = "calling")
  <2>1. stack' = below
    BY <1>2 DEF Unwind, Unwound
  <2> QED BY <2>1, GoesOnBelow
<1> QED BY <1>1, <1>2

LEMMA SaveLeadsStep ==
    ASSUME FilesInv, SaveLeads
    PROVE  FilesInv' /\ files.leads \subseteq files'.leads
<1> DEFINE below == Front(stack)
           g == [Last(below) EXCEPT !.at = "import_leads", !.imported = Top.leads]
<1>1. /\ Busy /\ Top.at = "leads"
      /\ overlapped \/ (Refers(files.leads, files) /\ Consistent(Top, files))
  BY TopImport DEF SaveLeads
<1>2. /\ overlapped' = overlapped
      /\ DOMAIN files' = DOMAIN files /\ \A p \in Parties : files'[p] = files[p]
      /\ files'.leads = files.leads \union ToSet(Top.leads)
  BY DEF SaveLeads, FilesInv, Shape, Parties
<1>3. Shape
  BY DEF FilesInv
<1>4. NoImportMoves
  <2>1. CASE below # << >> /\ Last(below).at = "calling"
    <3>1. /\ Last(below) = below[Len(below)] /\ Last(below).call = "intake"
          /\ DOMAIN Last(below) = {"call", "at", "imported", "queue", "top"}
      BY <1>1, <1>3, <2>1, WaitingIsIntake
    <3>2. stack' = [below EXCEPT ![Len(below)] = g]
      BY <2>1, <3>1 DEF SaveLeads
    <3>3. FrameShape(g) /\ g.call = "intake"
      BY <3>1 DEF FrameShape
    <3> QED BY <1>1, <1>3, <2>1, <3>2, <3>3, GoesOnBelow
  <2>2. CASE ~(below # << >> /\ Last(below).at = "calling")
    <3>1. stack' = below
      BY <2>2 DEF SaveLeads
    <3> QED BY <1>1, <1>3, <3>1, GoesOnBelow
  <2> QED BY <2>1, <2>2
<1>5. ASSUME ~overlapped PROVE Refers(files'.leads, files)
  <2>1. Consistent(Top, files) /\ Refers(files.leads, files)
    BY <1>1, <1>5
  <2>2. \A p \in Parties : files[p] = Top.known[p]
    BY <1>1, <2>1 DEF Consistent, Saved
  <2> QED BY <1>2, <2>1, <2>2 DEF Consistent, Refers
<1>6. FilesInv'
  BY <1>2, <1>4, <1>5, CallsOver
<1> QED BY <1>2, <1>6

-----------------------------------------------------------------------------
(* The actions of an intake, and all steps *)

\* The innermost call is an intake, and changes no file.
LEMMA TopIntake ==
    ASSUME Shape, NEW points, TopIs("intake", points)
    PROVE  /\ Busy /\ Top = stack[Len(stack)] /\ Top.call = "intake"
           /\ DOMAIN Top = {"call", "at", "imported", "queue", "top"}
<1>1. Busy /\ Top.call = "intake"
  BY DEF TopIs
<1> QED BY <1>1, TopShape DEF FrameShape

QueuePoints == {"create_work_item", "WorkItemStarted", "advance_top"}

\* The queue of an intake is loaded and added to, stays, or has an item transitioned.
Follows(queue, top, point, f) ==
    \/ /\ f.at = "import_leads" /\ point = "create_work_item" /\ top = f.top
       /\ queue = IF f.imported = << >> THEN items ELSE Added(items, f.imported[1].id, 0)
    \/ /\ f.at \in QueuePoints /\ point \in QueuePoints \ {"create_work_item"}
       /\ \/ queue = f.queue /\ top = f.top
          \/ \E status \in Open \union Closed :
                 /\ MayTransition(f.queue, top) /\ queue = Transitioned(f.queue, top, status)
                 /\ top = f.top \/ \E a \in Foremost(f.queue) : top = a.id

IntakeMove(queue, top, point) ==
    /\ stack' = [stack EXCEPT ![Len(stack)] =
                     [Top EXCEPT !.queue = queue, !.top = top, !.at = point]]
    /\ Follows(queue, top, point, Top)

LEMMA IntakeMoves ==
    ASSUME Shape, CreateWorkItem \/ StartTop \/ CompleteTop
    PROVE  \E queue, top, point : IntakeMove(queue, top, point)
<1>1. /\ Busy /\ Top = stack[Len(stack)] /\ Top.call = "intake"
      /\ DOMAIN Top = {"call", "at", "imported", "queue", "top"}
  BY TopIntake DEF CreateWorkItem, StartTop, CompleteTop
<1>2. ASSUME NEW queue, NEW top, NEW point, Follows(queue, top, point, Top),
             stack' = [stack EXCEPT ![Len(stack)] =
                          [Top EXCEPT !.queue = queue, !.top = top, !.at = point]]
      PROVE  \E q, t, p : IntakeMove(q, t, p)
  BY <1>2 DEF IntakeMove
<1>3. CASE CreateWorkItem
  <2> DEFINE queue == IF Top.imported = << >> THEN items ELSE Added(items, Top.imported[1].id, 0)
  <2>1. /\ stack' = [stack EXCEPT ![Len(stack)].queue = queue, ![Len(stack)].at = "create_work_item"]
        /\ Top.at = "import_leads"
    BY <1>3 DEF CreateWorkItem, TopIs
  <2>2. Follows(queue, Top.top, "create_work_item", Top)
    BY <2>1 DEF Follows
  <2> HIDE DEF queue
  <2>3. stack' = [stack EXCEPT ![Len(stack)] =
                     [Top EXCEPT !.queue = queue, !.top = Top.top, !.at = "create_work_item"]]
    BY <1>1, <2>1
  <2> QED BY <1>2, <2>2, <2>3
<1>4. CASE StartTop
  <2>0. Top.at \in QueuePoints
    BY <1>4 DEF StartTop, TopIs, QueuePoints
  <2>1. CASE Goto("advance_top")
    <3>1. stack' = [stack EXCEPT ![Len(stack)] =
                       [Top EXCEPT !.queue = Top.queue, !.top = Top.top, !.at = "advance_top"]]
      BY <1>1, <2>1 DEF Goto
    <3>2. Follows(Top.queue, Top.top, "advance_top", Top)
      BY <2>0 DEF Follows, QueuePoints
    <3> QED BY <1>2, <3>1, <3>2
  <2>2. ASSUME NEW a \in Foremost(Top.queue),
               stack' = [stack EXCEPT
                   ![Len(stack)].top = a.id,
                   ![Len(stack)].queue = Transitioned(@, a.id, "IN_PROGRESS"),
                   ![Len(stack)].at = "WorkItemStarted"]
        PROVE  \E q, t, p : IntakeMove(q, t, p)
    <3> DEFINE queue == Transitioned(Top.queue, a.id, "IN_PROGRESS")
    <3>1. stack' = [stack EXCEPT ![Len(stack)] =
                       [Top EXCEPT !.queue = queue, !.top = a.id, !.at = "WorkItemStarted"]]
      BY <1>1, <2>2
    <3>2. MayTransition(Top.queue, a.id)
      BY DEF Foremost, PendingItems, MayTransition, ToSet
    <3>3. Follows(queue, a.id, "WorkItemStarted", Top)
      BY <2>0, <3>2 DEF Follows, Open, QueuePoints
    <3> HIDE DEF queue
    <3> QED BY <1>2, <3>1, <3>3
  <2> QED BY <1>4, <2>1, <2>2 DEF StartTop
<1>5. CASE CompleteTop
  <2> DEFINE queue == Transitioned(Top.queue, Top.top, "COMPLETED")
  <2>1. /\ stack' = [stack EXCEPT ![Len(stack)].queue = Transitioned(@, Top.top, "COMPLETED"),
                                  ![Len(stack)].at = "advance_top"]
        /\ MayTransition(Top.queue, Top.top) /\ Top.at \in QueuePoints
    BY <1>5 DEF CompleteTop, TopIs, QueuePoints
  <2>2. stack' = [stack EXCEPT ![Len(stack)] =
                     [Top EXCEPT !.queue = queue, !.top = Top.top, !.at = "advance_top"]]
    BY <1>1, <2>1
  <2>3. Follows(queue, Top.top, "advance_top", Top)
    BY <2>1 DEF Follows, Closed, QueuePoints
  <2> HIDE DEF queue
  <2> QED BY <1>2, <2>2, <2>3
<1> QED BY <1>3, <1>4, <1>5

LEMMA IntakeStep ==
    ASSUME Shape, CreateWorkItem \/ StartTop \/ CompleteTop
    PROVE  NoImportMoves
<1>1. /\ Busy /\ Top = stack[Len(stack)] /\ Top.call = "intake"
      /\ DOMAIN Top = {"call", "at", "imported", "queue", "top"}
  BY TopIntake DEF CreateWorkItem, StartTop, CompleteTop
<1>2. PICK queue, top, point : IntakeMove(queue, top, point)
  BY IntakeMoves
<1> DEFINE g == [Top EXCEPT !.queue = queue, !.top = top, !.at = point]
<1>3. FrameShape(g) /\ g.call = "intake"
  BY <1>1 DEF FrameShape
<1> QED BY <1>1, <1>2, <1>3, IntakeGoesOn DEF IntakeMove

\* An intake is begun with its import on top of it.
LEMMA IntakeBegins ==
    ASSUME FilesInv, Intake
    PROVE  FilesInv'
<1> DEFINE g == [call |-> "intake", at |-> "calling", imported |-> << >>, queue |-> << >>, top |-> 0]
<1>1. BeginImport(Append(stack, g))
  BY DEF Intake, Opened
<1>2. FrameShape(g)
  BY DEF FrameShape
<1> HIDE DEF g
<1>3. /\ IsSequence(Append(stack, g)) /\ DOMAIN stack = 1 .. Len(stack)
      /\ DOMAIN Append(stack, g) = 1 .. Len(stack) + 1 /\ Len(stack) \in Nat
      /\ \A i \in 1 .. Len(stack) : Append(stack, g)[i] = stack[i]
      /\ Append(stack, g)[Len(stack) + 1] = g
  BY AppendAny DEF FilesInv, Shape
<1>4. ASSUME NEW i \in DOMAIN Append(stack, g) PROVE FrameShape(Append(stack, g)[i])
  BY <1>2, <1>3 DEF FilesInv, Shape
<1> QED BY <1>1, <1>3, <1>4, ImportBegins

LEMMA FilesStep ==
    ASSUME FilesInv, [IntakeNext]_<<stack, intakeVars>>
    PROVE  /\ FilesInv'
           /\ overlapped' \/ \A p \in Parties : Extends(files'[p], files[p])
           /\ files.leads \subseteq files'.leads
<1>1. Shape
  BY DEF FilesInv
<1>2. ASSUME NoImportMoves, files' = files, overlapped' = overlapped PROVE FilesInv'
  BY <1>2, CallsOver DEF FilesInv
<1>3. ASSUME FilesInv', files' = files
      PROVE  /\ FilesInv'
             /\ overlapped' \/ \A p \in Parties : Extends(files'[p], files[p])
             /\ files.leads \subseteq files'.leads
  BY <1>3 DEF Extends
<1>4. CASE Import
  <2>1. FilesInv'
    BY <1>4, ImportBegins DEF Import, FilesInv, Shape
  <2> QED BY <1>3, <1>4, <2>1 DEF Import, BeginImport
<1>5. CASE Intake
  BY <1>3, <1>5, IntakeBegins DEF Intake, BeginImport
<1>6. CASE EndOfFile
  BY <1>3, <1>6, EndOfFileStep DEF EndOfFile, intakeVars
<1>7. ASSUME NEW row \in Row, ReadRow(row)
      PROVE  FilesInv' /\ files' = files
  <2>1. files' = files
    BY <1>7 DEF ReadRow
  <2>2. FilesInv'
    BY <1>7, ReadRowStep
  <2> QED BY <2>1, <2>2
<1>8. CASE SaveLeads
  <2>1. \A p \in Parties : files'[p] = files[p]
    BY <1>1, <1>8 DEF SaveLeads, Shape, Parties
  <2> QED BY <1>8, <2>1, SaveLeadsStep DEF Extends
<1>9. ASSUME NEW p \in Parties, SaveParties(p)
      PROVE  /\ FilesInv'
             /\ overlapped' \/ \A q \in Parties : Extends(files'[q], files[q])
             /\ files.leads \subseteq files'.leads
  <2>1. FilesInv' /\ (overlapped \/ Extends(files'[p], files[p]))
    BY <1>9, SavePartiesStep
  <2>2. /\ overlapped' = overlapped /\ files'.leads = files.leads
        /\ \A q \in Parties : q # p => files'[q] = files[q]
    BY <1>1, <1>9 DEF SaveParties, Shape, Parties
  <2> QED BY <2>1, <2>2 DEF Extends
<1>10. CASE CreateWorkItem \/ StartTop \/ CompleteTop
  <2>1. files' = files /\ overlapped' = overlapped
    BY <1>10 DEF CreateWorkItem, StartTop, CompleteTop, intakeVars
  <2> QED BY <1>1, <1>2, <1>3, <1>10, <2>1, IntakeStep
<1>11. CASE PersistQueue \/ IntakeFails
  <2>1. /\ Busy /\ stack' = Front(stack)
        /\ files' = files /\ overlapped' = overlapped
    BY <1>11 DEF PersistQueue, IntakeFails, TopIs, Return, intakeVars
  <2>2. NoImportMoves
    BY <1>1, <2>1, GoesOnBelow
  <2> QED BY <1>2, <1>3, <2>1, <2>2
<1>12. CASE IntakeRaises
  <2>1. Busy /\ Unwind /\ files' = files /\ overlapped' = overlapped
    BY <1>12 DEF IntakeRaises, intakeVars
  <2> QED BY <1>1, <1>2, <1>3, <2>1, UnwindStep
<1>13. CASE Crash
  <2>1. stack' = << >> /\ files' = files /\ overlapped' = overlapped
    BY <1>13 DEF Crash, intakeVars
  <2>2. Len(stack) \in Nat
    BY <1>1, AppendAny DEF Shape
  <2>3. << >> \in Seq({}) /\ DOMAIN << >> = {} /\ Len(<< >>) = 0
    OBVIOUS
  <2>4. NoImportMoves
    BY <2>1, <2>2, <2>3 DEF NoImportMoves, IsSequence
  <2> QED BY <1>2, <1>3, <2>1, <2>4
<1>14. ASSUME UNCHANGED <<stack, files, overlapped>>
       PROVE  FilesInv'
  BY <1>14 DEF FilesInv, Shape, ImportsOnTop
<1>15. ASSUME NEW lead \in files.leads, NEW due \in DueDates, HostAdds(lead, due)
       PROVE  FilesInv' /\ files' = files
  BY <1>14, <1>15 DEF HostAdds, HostSaves
<1>16. ASSUME NEW id \in 1 .. Len(items), HostTransitions(id)
       PROVE  FilesInv' /\ files' = files
  BY <1>14, <1>16 DEF HostTransitions, HostSaves
<1>17. CASE UNCHANGED <<stack, intakeVars>>
  BY <1>3, <1>14, <1>17 DEF intakeVars
<1> QED
  BY <1>3, <1>4, <1>5, <1>6, <1>7, <1>8, <1>9, <1>10, <1>11, <1>12, <1>13, <1>15, <1>16, <1>17
  DEF IntakeNext

-----------------------------------------------------------------------------
(* The work queue.  Its ids are the places of the items; every queue that an *)
(* intake holds, and every lead it was handed, is stored; and as long as     *)
(* nobody saves the queue meanwhile the one it holds has all closed items.   *)

LeadIds(leads) == {lead.id : lead \in leads}
Item(leads) ==
    [id : Nat, lead : LeadIds(leads), due : DueDates \union {0}, status : Open \union Closed]
QueueOK(q, leads) == q \in Seq(Item(leads)) /\ \A i \in DOMAIN q : q[i].id = i

Keeps(q, r) ==
    \A i \in DOMAIN q : q[i].status \in Closed => i \in DOMAIN r /\ r[i] = q[i]

\* The item of the id stands before all others that are open.
IsFirst(id, q) ==
    \A a, b \in ToSet(q) : a.id = id /\ b.status \in Open /\ b # a => Before(a, b)

Told(f, leads, q, clash) ==
    /\ f.at \in {"calling", "import_leads", "create_work_item"} => f.top = 0
    /\ f.top # 0 => IsFirst(f.top, f.queue)
    /\ f.at = "import_leads" =>
           IsSequence(f.imported) /\ \A lead \in ToSet(f.imported) : lead.id \in LeadIds(leads)
    /\ f.at \in QueuePoints => QueueOK(f.queue, leads) /\ (clash \/ Keeps(q, f.queue))

IntakesTold ==
    /\ \A i, j \in DOMAIN stack : stack[i].call = "intake" /\ stack[j].call = "intake" => i = j
    /\ \A i \in DOMAIN stack : stack[i].call = "intake" => Told(stack[i], files.leads, items, clashed)

QueueInv == QueueOK(items, files.leads) /\ IntakesTold

LEMMA QueueInit == IntakeInit => QueueInv
<1> SUFFICES ASSUME IntakeInit PROVE QueueInv
  OBVIOUS
<1>1. stack = << >> /\ items = << >>
  BY DEF IntakeInit
<1> QED BY <1>1 DEF QueueInv, QueueOK, IntakesTold

\* Stored leads stay, so what was a queue of stored leads is one.
LEMMA QueueLasts ==
    ASSUME NEW leads, NEW more, leads \subseteq more, NEW q, QueueOK(q, leads)
    PROVE  QueueOK(q, more)
<1>1. Item(leads) \subseteq Item(more)
  BY DEF Item, LeadIds
<1> HIDE DEF Item
<1>2. q \in Seq(Item(more))
  BY <1>1 DEF QueueOK
<1> QED BY <1>2 DEF QueueOK

\* A transition of an open item: the queue stays one, and its closed items stay.
LEMMA TransitionedOK ==
    ASSUME NEW leads, NEW q, QueueOK(q, leads), NEW id, MayTransition(q, id), NEW status \in Open \union Closed
    PROVE  QueueOK(Transitioned(q, id, status), leads) /\ Keeps(q, Transitioned(q, id, status))
<1> DEFINE r == Transitioned(q, id, status)
<1>1. Len(q) \in Nat /\ DOMAIN q = 1 .. Len(q) /\ \A i \in 1 .. Len(q) : q[i] \in Item(leads) /\ q[i].id = i
  BY DEF QueueOK
<1>2. r = [i \in 1 .. Len(q) |-> IF q[i].id = id THEN [q[i] EXCEPT !.status = status] ELSE q[i]]
  BY <1>1 DEF Transitioned
<1>3. ASSUME NEW i \in 1 .. Len(q)
      PROVE  r[i] \in Item(leads) /\ r[i].id = i /\ (i # id => r[i] = q[i])
  <2>1. q[i] \in Item(leads) /\ q[i].id = i
    BY <1>1
  <2>2. r[i] = IF q[i].id = id THEN [q[i] EXCEPT !.status = status] ELSE q[i]
    BY <1>2
  <2> HIDE DEF r
  <2>3. [q[i] EXCEPT !.status = status] \in Item(leads) /\ [q[i] EXCEPT !.status = status].id = i
    BY <2>1 DEF Item
  <2> QED BY <2>1, <2>2, <2>3
<1>4. DOMAIN r = 1 .. Len(q)
  BY <1>2
<1> HIDE DEF r
<1>5. r \in Seq(Item(leads)) /\ \A i \in DOMAIN r : r[i].id = i
  <2> HIDE DEF Item
  <2>1. r = [i \in 1 .. Len(q) |-> r[i]]
    BY <1>2, <1>4 DEF r
  <2> QED BY <1>1, <1>3, <1>4, <2>1
<1>6. ~(\E i \in DOMAIN q : i = id /\ q[i].status \in Closed)
  BY <1>1 DEF MayTransition, Open, Closed
<1>7. Keeps(q, r)
  BY <1>1, <1>3, <1>4, <1>6 DEF Keeps
<1> QED BY <1>5, <1>7 DEF QueueOK, r

\* The first item stays so in every status.
LEMMA FirstStays ==
    ASSUME NEW leads, NEW q, QueueOK(q, leads), NEW id, IsFirst(id, q), NEW status
    PROVE  IsFirst(id, Transitioned(q, id, status))
<1> DEFINE r == Transitioned(q, id, status)
<1>1. DOMAIN r = DOMAIN q
  BY DEF Transitioned
<1>2. ASSUME NEW i \in DOMAIN q
      PROVE  /\ q[i] \in Item(leads) /\ q[i].id = i /\ r[i].id = i /\ r[i].due = q[i].due
             /\ i # id => r[i] = q[i]
  <2>1. q[i] \in Item(leads) /\ q[i].id = i
    BY DEF QueueOK
  <2>2. r[i] = IF q[i].id = id THEN [q[i] EXCEPT !.status = status] ELSE q[i]
    BY DEF Transitioned
  <2> HIDE DEF r
  <2>3. /\ [q[i] EXCEPT !.status = status].id = q[i].id
        /\ [q[i] EXCEPT !.status = status].due = q[i].due
    BY <2>1 DEF Item
  <2> QED BY <2>1, <2>2, <2>3
<1> HIDE DEF r
<1>3. ASSUME NEW i \in DOMAIN q, NEW j \in DOMAIN q,
             r[i].id = id, r[j].status \in Open, r[j] # r[i]
      PROVE  Before(r[i], r[j])
  <2>1. i = id /\ j # id /\ r[j] = q[j]
    BY <1>2, <1>3
  <2>2. q[i].id = id /\ q[j].id # q[i].id /\ q[i] \in ToSet(q) /\ q[j] \in ToSet(q)
    BY <1>2, <2>1 DEF ToSet
  <2>3. Before(q[i], q[j])
    BY <1>3, <2>1, <2>2 DEF IsFirst
  <2> QED BY <1>2, <2>1, <2>2, <2>3 DEF Before
<1> QED BY <1>1, <1>3 DEF IsFirst, ToSet, r

LEMMA ForemostIsFirst ==
    ASSUME NEW leads, NEW q, QueueOK(q, leads), NEW a \in Foremost(q)
    PROVE  IsFirst(a.id, q)
<1>1. a \in ToSet(q) /\ \A b \in ToSet(q) : b.status \in Open /\ b # a => Before(a, b)
  BY DEF Foremost, PendingItems
<1>2. \A b \in ToSet(q) : b.id = a.id => b = a
  BY <1>1 DEF QueueOK, ToSet
<1> QED BY <1>1, <1>2 DEF IsFirst

\* A queue with an open item has a first one: the order is total.
LEMMA LeastNatural ==
    ASSUME NEW T \in SUBSET Nat, T # {}
    PROVE  \E m \in T : \A n \in T : m <= n
<1>1. PICK m \in T : \A n \in T : ~(<<n, m>> \in OpToRel(<, Nat))
  BY NatLessThanWellFounded, WFMin, Zenon
<1>2. \A n \in T : ~(n < m)
  BY <1>1 DEF OpToRel
<1> QED BY <1>2

LEMMA ForemostExists ==
    ASSUME NEW leads, NEW q, QueueOK(q, leads), PendingItems(q) # {}
    PROVE  Foremost(q) # {}
<1>1. \A a \in PendingItems(q) : a \in ToSet(q) /\ a.id \in Nat /\ a.due \in Nat
  <2>1. ASSUME NEW i \in DOMAIN q PROVE q[i].id \in Nat /\ q[i].due \in Nat
    <3>1. q[i] \in Item(leads)
      BY DEF QueueOK
    <3>2. q[i].id \in Nat /\ q[i].due \in DueDates \union {0}
      BY <3>1 DEF Item
    <3>3. CASE q[i].due \in DueDates
      BY <3>2, <3>3, DatesAreOrdered
    <3>4. CASE q[i].due = 0
      BY <3>2, <3>4
    <3> QED BY <3>2, <3>3, <3>4
  <2> QED BY <2>1 DEF PendingItems, ToSet
<1>2. \A a, b \in PendingItems(q) : a.id = b.id => a = b
  BY DEF PendingItems, ToSet, QueueOK
<1>3. PICK due \in Nat : /\ \E a \in PendingItems(q) : a.due = due
                         /\ \A b \in PendingItems(q) :
                                b.due = due \/ (due # 0 /\ (b.due = 0 \/ due < b.due))
  <2> DEFINE dues == {n \in Nat \ {0} : \E a \in PendingItems(q) : a.due = n}
  <2>1. CASE dues = {}
    <3>1. \A b \in PendingItems(q) : b.due = 0
      BY <1>1, <2>1
    <3> QED BY <3>1
  <2>2. CASE dues # {}
    <3>1. PICK m \in dues : \A n \in dues : m <= n
      BY <2>2, LeastNatural
    <3>2. \A b \in PendingItems(q) : b.due = m \/ (m # 0 /\ (b.due = 0 \/ m < b.due))
      BY <1>1, <3>1
    <3> QED BY <3>1, <3>2
  <2> QED BY <2>1, <2>2
<1>4. PICK id \in Nat : /\ \E a \in PendingItems(q) : a.due = due /\ a.id = id
                        /\ \A b \in PendingItems(q) : b.due = due => id <= b.id
  <2> DEFINE ids == {n \in Nat : \E a \in PendingItems(q) : a.due = due /\ a.id = n}
  <2>1. ids \in SUBSET Nat /\ ids # {}
    BY <1>1, <1>3
  <2>2. PICK m \in ids : \A n \in ids : m <= n
    BY <2>1, LeastNatural
  <2> QED BY <1>1, <2>2
<1>5. PICK a \in PendingItems(q) : a.due = due /\ a.id = id
  BY <1>4
<1>6. ASSUME NEW b \in PendingItems(q), b # a PROVE Before(a, b)
  <2>1. b.id # a.id /\ a.id \in Nat /\ b.id \in Nat /\ b.due \in Nat
    BY <1>1, <1>2, <1>6
  <2> QED BY <1>3, <1>4, <1>5, <1>6, <2>1 DEF Before
<1> QED BY <1>5, <1>6 DEF Foremost

\* A new item stands at the end.
LEMMA AddedOK ==
    ASSUME NEW leads, NEW q, QueueOK(q, leads), NEW lead \in LeadIds(leads), NEW due \in DueDates \union {0}
    PROVE  QueueOK(Added(q, lead, due), leads) /\ Keeps(q, Added(q, lead, due))
<1> DEFINE e == [id |-> Len(q) + 1, lead |-> lead, due |-> due, status |-> "PENDING"]
<1>1. Len(q) \in Nat /\ q \in Seq(Item(leads)) /\ DOMAIN q = 1 .. Len(q) /\ \A i \in 1 .. Len(q) : q[i].id = i
  BY DEF QueueOK
<1>2. e \in Item(leads) /\ e.id = Len(q) + 1
  BY <1>1 DEF Item, Open
<1>3. Added(q, lead, due) = Append(q, e)
  BY DEF Added
<1> HIDE DEF e, Item
<1>4. /\ Append(q, e) \in Seq(Item(leads)) /\ DOMAIN Append(q, e) = 1 .. Len(q) + 1
      /\ Append(q, e)[Len(q) + 1] = e /\ \A i \in 1 .. Len(q) : Append(q, e)[i] = q[i]
  BY <1>1, <1>2
<1> QED BY <1>1, <1>2, <1>3, <1>4 DEF QueueOK, Keeps

-----------------------------------------------------------------------------
(* The steps: an intake that goes on was told the truth, all others stay.    *)

IntakesGoOn ==
    \A i \in DOMAIN stack' : stack'[i].call = "intake" =>
        /\ i \in DOMAIN stack /\ stack[i].call = "intake"
        /\ stack'[i] = stack[i] \/ Told(stack'[i], files'.leads, items, clashed)

LEMMA IntakesStayTold ==
    ASSUME IntakesTold, IntakesGoOn, files.leads \subseteq files'.leads,
           UNCHANGED <<items, clashed>>
    PROVE  IntakesTold'
<1>1. ASSUME NEW f, Told(f, files.leads, items, clashed)
      PROVE  Told(f, files'.leads, items, clashed)
  BY <1>1, QueueLasts DEF Told, LeadIds
<1>2. ASSUME NEW i \in DOMAIN stack', stack'[i].call = "intake"
      PROVE  Told(stack'[i], files'.leads, items, clashed)
  BY <1>1, <1>2 DEF IntakesTold, IntakesGoOn
<1> QED BY <1>2 DEF IntakesTold, IntakesGoOn

\* An import is begun, goes on, or the innermost call ends.
LEMMA NoneGoesOn ==
    ASSUME Shape,
           \/ Busy /\ stack' = Front(stack)
           \/ \E g : stack' = Append(stack, g) /\ g.call = "import"
           \/ Busy /\ \E g : stack' = [stack EXCEPT ![Len(stack)] = g] /\ g.call = "import"
           \/ stack' = << >> \/ stack' = stack
    PROVE  IntakesGoOn
<1>1. Len(stack) \in Nat /\ DOMAIN stack = 1 .. Len(stack)
  BY AppendAny DEF Shape
<1>2. CASE Busy /\ stack' = Front(stack)
  BY <1>2, FrontAny DEF IntakesGoOn, Shape, Busy
<1>3. ASSUME NEW g, stack' = Append(stack, g), g.call = "import" PROVE IntakesGoOn
  <2>1. /\ DOMAIN stack' = 1 .. Len(stack) + 1 /\ stack'[Len(stack) + 1] = g
        /\ \A i \in 1 .. Len(stack) : stack'[i] = stack[i]
    BY <1>3, AppendAny DEF Shape
  <2>2. ASSUME NEW i \in DOMAIN stack', stack'[i].call = "intake"
        PROVE  i \in DOMAIN stack /\ stack'[i] = stack[i]
    <3>1. i # Len(stack) + 1
      BY <1>3, <2>1, <2>2
    <3>2. i \in 1 .. Len(stack) + 1
      BY <2>1, <2>2
    <3>3. i \in 1 .. Len(stack)
      BY <1>1, <3>1, <3>2
    <3> QED BY <1>1, <2>1, <3>3
  <2> QED BY <2>2 DEF IntakesGoOn
<1>4. ASSUME Busy, NEW g, stack' = [stack EXCEPT ![Len(stack)] = g], g.call = "import"
      PROVE  IntakesGoOn
  <2>1. Len(stack) \in DOMAIN stack
    <3>1. Len(stack) \in Nat \ {0}
      BY <1>4, TopShape
    <3> QED BY <1>1, <3>1
  <2>2. /\ DOMAIN stack' = DOMAIN stack /\ stack'[Len(stack)] = g
        /\ \A i \in DOMAIN stack : i # Len(stack) => stack'[i] = stack[i]
    BY <1>4, <2>1, ExceptAny DEF Shape
  <2> QED BY <1>4, <2>2 DEF IntakesGoOn
<1>5. CASE stack' = << >> \/ stack' = stack
  BY <1>5 DEF IntakesGoOn
<1> QED BY <1>2, <1>3, <1>4, <1>5

\* The innermost call is an intake and goes on.
LEMMA TopGoesOn ==
    ASSUME Shape, Busy, Top.call = "intake", NEW g, Told(g, files'.leads, items, clashed),
           stack' = [stack EXCEPT ![Len(stack)] = g]
    PROVE  IntakesGoOn
<1>1. Len(stack) \in DOMAIN stack /\ Top = stack[Len(stack)]
  BY TopShape
<1>2. /\ DOMAIN stack' = DOMAIN stack /\ stack'[Len(stack)] = g
      /\ \A i \in DOMAIN stack : i # Len(stack) => stack'[i] = stack[i]
  BY <1>1, ExceptAny DEF Shape
<1> QED BY <1>1, <1>2 DEF IntakesGoOn

\* The import of an intake comes to its end or raises, and the intake goes on.
LEMMA BelowGoesOn ==
    ASSUME Shape, Busy, Front(stack) # << >>, Last(Front(stack)).at = "calling",
           NEW g, Told(g, files'.leads, items, clashed), stack' = [Front(stack) EXCEPT ![Len(Front(stack))] = g]
    PROVE  IntakesGoOn
<1> DEFINE below == Front(stack)
<1>1. /\ IsSequence(below)
      /\ DOMAIN stack = 1 .. Len(stack) /\ Len(stack) \in Nat \ {0}
      /\ Len(below) = Len(stack) - 1 /\ DOMAIN below = 1 .. Len(stack) - 1
      /\ \A i \in 1 .. Len(stack) - 1 : below[i] = stack[i]
  BY FrontAny DEF Busy, Shape
<1>2. below[Len(below)].call = "intake"
  BY WaitingIsIntake
<1> HIDE DEF below
<1>3. Len(below) \in DOMAIN below /\ DOMAIN below \subseteq DOMAIN stack
  BY <1>1, FrontAny DEF below
<1>4. /\ DOMAIN stack' = DOMAIN below /\ stack'[Len(below)] = g
      /\ \A i \in DOMAIN below : i # Len(below) => stack'[i] = below[i]
  BY <1>1, <1>3, ExceptAny DEF below
<1>5. \A i \in DOMAIN below : i \in DOMAIN stack /\ below[i] = stack[i]
  BY <1>1, <1>3
<1> QED BY <1>2, <1>3, <1>4, <1>5 DEF IntakesGoOn

LEMMA WaitingTold ==
    ASSUME Shape, Busy, IntakesTold, Front(stack) # << >>, Last(Front(stack)).at = "calling"
    PROVE  Told(Last(Front(stack)), files.leads, items, clashed)
<1> DEFINE below == Front(stack)
<1>1. /\ IsSequence(below)
      /\ DOMAIN stack = 1 .. Len(stack) /\ Len(stack) \in Nat \ {0}
      /\ DOMAIN below = 1 .. Len(stack) - 1
      /\ \A i \in 1 .. Len(stack) - 1 : below[i] = stack[i]
  BY FrontAny DEF Busy, Shape
<1>2. below[Len(below)].call = "intake" /\ Last(below) = below[Len(below)]
  BY WaitingIsIntake
<1> HIDE DEF below
<1>3. Len(below) \in DOMAIN below
  BY <1>1, FrontAny DEF below
<1>4. Len(below) \in DOMAIN stack /\ below[Len(below)] = stack[Len(below)]
  BY <1>1, <1>3
<1> QED BY <1>2, <1>4 DEF IntakesTold, below

\* An exception leaves the innermost call.
LEMMA UnwindTold ==
    ASSUME Shape, Busy, IntakesTold, Unwind
    PROVE  IntakesGoOn
<1> DEFINE below == Front(stack)
           g == [Last(below) EXCEPT !.at = "raised"]
<1>1. CASE below # << >> /\ Last(below).at = "calling"
  <2>1. /\ DOMAIN Last(below) = {"call", "at", "imported", "queue", "top"}
        /\ stack' = [below EXCEPT ![Len(below)] = g]
    BY <1>1, WaitingIsIntake DEF Unwind, Unwound
  <2>2. g.at = "raised" /\ g.top = Last(below).top /\ g.queue = Last(below).queue
    BY <2>1
  <2> HIDE DEF g
  <2>3. Told(g, files'.leads, items, clashed)
    BY <1>1, <2>2, WaitingTold DEF Told, QueuePoints
  <2> QED BY <1>1, <2>1, <2>3, BelowGoesOn
<1>2. CASE ~(below # << >> /\ Last(below).at = "calling")
  <2>1. stack' = below
    BY <1>2 DEF Unwind, Unwound
  <2> QED BY <2>1, NoneGoesOn
<1> QED BY <1>1, <1>2

\* What an intake is handed of its import is stored.
LEMMA SaveLeadsTold ==
    ASSUME FilesInv, IntakesTold, SaveLeads
    PROVE  IntakesGoOn
<1> DEFINE below == Front(stack)
           g == [Last(below) EXCEPT !.at = "import_leads", !.imported = Top.leads]
<1>1. /\ Busy /\ Shape /\ IsSequence(Top.leads)
  BY TopImport DEF SaveLeads, FilesInv
<1>2. CASE below # << >> /\ Last(below).at = "calling"
  <2>1. /\ DOMAIN Last(below) = {"call", "at", "imported", "queue", "top"}
        /\ stack' = [below EXCEPT ![Len(below)] = g]
    BY <1>1, <1>2, WaitingIsIntake DEF SaveLeads
  <2>2. g.at = "import_leads" /\ g.imported = Top.leads /\ g.top = Last(below).top
    BY <2>1
  <2>3. \A lead \in ToSet(Top.leads) : lead.id \in LeadIds(files'.leads)
    <3>1. files'.leads = files.leads \union ToSet(Top.leads)
      BY <1>1 DEF SaveLeads, Shape, Parties
    <3> QED BY <3>1 DEF LeadIds
  <2> HIDE DEF g
  <2>4. Told(g, files'.leads, items, clashed)
    BY <1>1, <1>2, <2>2, <2>3, WaitingTold DEF Told, QueuePoints
  <2> QED BY <1>1, <1>2, <2>1, <2>4, BelowGoesOn
<1>3. CASE ~(below # << >> /\ Last(below).at = "calling")
  <2>1. stack' = below
    BY <1>3 DEF SaveLeads
  <2> QED BY <1>1, <2>1, NoneGoesOn
<1> QED BY <1>2, <1>3

LEMMA KeepsTrans ==
    ASSUME NEW q, NEW r, NEW s, Keeps(q, r), Keeps(r, s)
    PROVE  Keeps(q, s)
BY DEF Keeps

\* An intake that goes on holds a queue, and but for others' changes all closed items.
LEMMA IntakeTold ==
    ASSUME Shape, QueueInv, CreateWorkItem \/ StartTop \/ CompleteTop
    PROVE  IntakesGoOn
<1>1. /\ Busy /\ Top = stack[Len(stack)] /\ Top.call = "intake"
      /\ DOMAIN Top = {"call", "at", "imported", "queue", "top"}
  BY TopIntake DEF CreateWorkItem, StartTop, CompleteTop
<1>2. files' = files /\ items' = items /\ clashed' = clashed
  BY DEF CreateWorkItem, StartTop, CompleteTop, intakeVars
<1>3. QueueOK(items, files.leads) /\ Told(Top, files.leads, items, clashed)
  BY <1>1, TopShape DEF QueueInv, IntakesTold
<1>4. PICK queue, top, point : IntakeMove(queue, top, point)
  BY IntakeMoves
<1>5. QueueOK(queue, files.leads) /\ (clashed \/ Keeps(items, queue))
  <2>1. Keeps(items, items)
    BY DEF Keeps
  <2>2. CASE Top.at = "import_leads" /\ queue = items
    BY <1>3, <2>1, <2>2
  <2>3. CASE Top.at = "import_leads" /\ Top.imported # << >> /\ queue = Added(items, Top.imported[1].id, 0)
    <3>1. Top.imported[1].id \in LeadIds(files.leads)
      <4>1. IsSequence(Top.imported) /\ \A lead \in ToSet(Top.imported) : lead.id \in LeadIds(files.leads)
        BY <1>3, <2>3 DEF Told
      <4>2. 1 \in DOMAIN Top.imported
        BY <2>3, <4>1, FrontAny
      <4> QED BY <4>1, <4>2 DEF ToSet
    <3> QED BY <1>3, <2>3, <3>1, AddedOK
  <2>4. ASSUME Top.at \in QueuePoints
        PROVE  QueueOK(Top.queue, files.leads) /\ (clashed \/ Keeps(items, Top.queue))
    BY <1>3, <2>4 DEF Told
  <2>5. CASE Top.at \in QueuePoints /\ queue = Top.queue
    BY <2>4, <2>5
  <2>6. ASSUME Top.at \in QueuePoints, NEW status \in Open \union Closed,
               MayTransition(Top.queue, top), queue = Transitioned(Top.queue, top, status)
        PROVE  QueueOK(queue, files.leads) /\ (clashed \/ Keeps(items, queue))
    <3>1. QueueOK(queue, files.leads) /\ Keeps(Top.queue, queue)
      BY <2>4, <2>6, TransitionedOK
    <3> QED BY <2>4, <2>6, <3>1, KeepsTrans
  <2> QED BY <1>4, <2>2, <2>3, <2>5, <2>6 DEF IntakeMove, Follows
<1>6. /\ top # 0 => IsFirst(top, queue)
      /\ point = "create_work_item" => top = 0
  <2>1. CASE Top.at = "import_leads" /\ top = Top.top
    BY <1>3, <2>1 DEF Told
  <2>2. CASE /\ Top.at \in QueuePoints /\ point # "create_work_item"
             /\ queue = Top.queue /\ top = Top.top
    BY <1>3, <2>2 DEF Told
  <2>3. ASSUME Top.at \in QueuePoints, NEW status,
               queue = Transitioned(Top.queue, top, status), top # 0,
               top = Top.top \/ \E a \in Foremost(Top.queue) : top = a.id
        PROVE  IsFirst(top, queue)
    <3>1. QueueOK(Top.queue, files.leads) /\ (Top.top # 0 => IsFirst(Top.top, Top.queue))
      BY <1>3, <2>3 DEF Told
    <3>2. IsFirst(top, Top.queue)
      BY <2>3, <3>1, ForemostIsFirst
    <3> QED BY <2>3, <3>1, <3>2, FirstStays
  <2> QED BY <1>4, <2>1, <2>2, <2>3 DEF IntakeMove, Follows
<1> DEFINE g == [Top EXCEPT !.queue = queue, !.top = top, !.at = point]
<1>7. g.queue = queue /\ g.at = point /\ g.top = top
  BY <1>1
<1>8. point \in QueuePoints /\ point \notin {"calling", "import_leads"}
  BY <1>4 DEF IntakeMove, Follows, QueuePoints
<1>9. stack' = [stack EXCEPT ![Len(stack)] = g]
  BY <1>4 DEF IntakeMove
<1> HIDE DEF g
<1>10. Told(g, files'.leads, items, clashed)
  <2>1. g.at \in QueuePoints /\ g.at \notin {"calling", "import_leads"}
    BY <1>7, <1>8
  <2>2. QueueOK(g.queue, files'.leads) /\ (clashed \/ Keeps(items, g.queue))
    BY <1>2, <1>5, <1>7
  <2>3. /\ g.top # 0 => IsFirst(g.top, g.queue)
        /\ g.at = "create_work_item" => g.top = 0
    BY <1>6, <1>7
  <2> QED BY <2>1, <2>2, <2>3 DEF Told
<1> QED BY <1>1, <1>9, <1>10, TopGoesOn

\* Host code saves the queue while no intake, or one that counts as clashed, holds it.
LEMMA HostTold ==
    ASSUME QueueInv, NEW queue, QueueOK(queue, files.leads), Keeps(items, queue), HostSaves(queue)
    PROVE  QueueInv' /\ Keeps(items, items')
<1>1. stack' = stack /\ files' = files /\ items' = queue /\ clashed' = (clashed \/ Holding)
  BY DEF HostSaves
<1>2. ASSUME NEW i \in DOMAIN stack, stack[i].call = "intake"
      PROVE  Told(stack[i], files.leads, queue, clashed')
  <2>1. Told(stack[i], files.leads, items, clashed)
    BY <1>2 DEF QueueInv, IntakesTold
  <2>2. stack[i].at \in QueuePoints => clashed'
    <3>1. stack[i].at \in QueuePoints => Holding
      BY <1>2 DEF Holding, QueuePoints
    <3> QED BY <1>1, <3>1
  <2> QED BY <2>1, <2>2 DEF Told
<1> QED BY <1>1, <1>2 DEF QueueInv, IntakesTold

\* The only intake there is stores the queue it holds, and returns.
LEMMA PersistTold ==
    ASSUME Shape, QueueInv, PersistQueue
    PROVE  QueueInv' /\ (clashed \/ Keeps(items, items'))
<1>1. /\ Busy /\ Top = stack[Len(stack)] /\ Top.call = "intake" /\ Top.at \in QueuePoints
      /\ Len(stack) \in Nat \ {0} /\ DOMAIN stack = 1 .. Len(stack)
  BY TopIntake, TopShape DEF PersistQueue, TopIs, QueuePoints
<1>2. stack' = Front(stack) /\ items' = Top.queue /\ files' = files /\ clashed' = clashed
  BY DEF PersistQueue, Return
<1>3. QueueOK(Top.queue, files.leads) /\ (clashed \/ Keeps(items, Top.queue))
  BY <1>1 DEF QueueInv, IntakesTold, Told
<1>4. ASSUME NEW i \in DOMAIN stack' PROVE i \in DOMAIN stack /\ stack[i].call # "intake"
                                            /\ stack'[i] = stack[i]
  <2>1. i \in 1 .. Len(stack) - 1 /\ stack'[i] = stack[i]
    BY <1>1, <1>2, FrontAny DEF Shape, Busy
  <2>2. i \in DOMAIN stack /\ i # Len(stack) /\ Len(stack) \in DOMAIN stack
    BY <1>1, <2>1
  <2> QED BY <1>1, <2>1, <2>2 DEF QueueInv, IntakesTold
<1> QED BY <1>2, <1>3, <1>4 DEF QueueInv, IntakesTold

\* The first intake is opened, waiting for its import.
LEMMA IntakeOpens ==
    ASSUME Shape, QueueInv, Intake
    PROVE  QueueInv' /\ items' = items
<1> DEFINE g == [call |-> "intake", at |-> "calling", imported |-> << >>, queue |-> << >>, top |-> 0]
           two == Append(stack, g)
<1>1. /\ \A i \in DOMAIN stack : stack[i].call # "intake"
      /\ stack' = Append(two, ImportFrame)
      /\ files' = files /\ items' = items /\ clashed' = clashed
  BY DEF Intake, Opened, BeginImport
<1>2. g.at = "calling" /\ g.top = 0 /\ ImportFrame.call = "import"
  BY DEF ImportFrame
<1> HIDE DEF g
<1>3. /\ IsSequence(two) /\ DOMAIN stack = 1 .. Len(stack) /\ Len(stack) \in Nat
      /\ Len(two) = Len(stack) + 1
      /\ \A i \in 1 .. Len(stack) : two[i] = stack[i]
      /\ two[Len(stack) + 1] = g
  BY AppendAny DEF Shape
<1> HIDE DEF two
<1>4. /\ DOMAIN stack' = 1 .. Len(stack) + 2
      /\ \A i \in 1 .. Len(stack) + 1 : stack'[i] = two[i]
      /\ stack'[Len(stack) + 2] = ImportFrame
  BY <1>1, <1>3, AppendAny
<1>5. ASSUME NEW i \in DOMAIN stack', stack'[i].call = "intake"
      PROVE  i = Len(stack) + 1 /\ stack'[i] = g
  BY <1>1, <1>2, <1>3, <1>4, <1>5
<1>6. Told(g, files.leads, items, clashed)
  BY <1>2 DEF Told, QueuePoints
<1> QED BY <1>1, <1>5, <1>6 DEF QueueInv, IntakesTold

LEMMA QueueStep ==
    ASSUME FilesInv, QueueInv, [IntakeNext]_<<stack, intakeVars>>
    PROVE  QueueInv' /\ (clashed \/ Keeps(items, items'))
<1>1. Shape /\ files.leads \subseteq files'.leads
  BY FilesStep DEF FilesInv
<1>2. Keeps(items, items)
  BY DEF Keeps
<1>3. ASSUME IntakesGoOn, items' = items, clashed' = clashed
      PROVE  QueueInv' /\ (clashed \/ Keeps(items, items'))
  <2>1. QueueOK(items, files'.leads)
    BY <1>1, QueueLasts DEF QueueInv
  <2>2. IntakesTold'
    BY <1>1, <1>3, IntakesStayTold DEF QueueInv
  <2> QED BY <1>2, <1>3, <2>1, <2>2 DEF QueueInv
<1>4. CASE Import
  <2>1. /\ stack' = Append(stack, ImportFrame) /\ ImportFrame.call = "import"
        /\ items' = items /\ clashed' = clashed
    BY <1>4 DEF Import, BeginImport, ImportFrame
  <2>2. IntakesGoOn
    BY <1>1, <2>1, NoneGoesOn
  <2> QED BY <1>3, <2>1, <2>2
<1>5. CASE EndOfFile
  BY <1>1, <1>3, <1>5, EndOfFileStep, NoneGoesOn DEF ImportMoves, EndOfFile, intakeVars
<1>6. ASSUME NEW row \in Row, ReadRow(row)
      PROVE  QueueInv' /\ (clashed \/ Keeps(items, items'))
  <2>1. items' = items /\ clashed' = clashed
    BY <1>6 DEF ReadRow
  <2>2. IntakesGoOn
    BY <1>1, <1>6, ReadRowStep, NoneGoesOn DEF ImportMoves
  <2> QED BY <1>3, <2>1, <2>2
<1>7. ASSUME NEW p \in Parties, SaveParties(p)
      PROVE  QueueInv' /\ (clashed \/ Keeps(items, items'))
  <2>1. items' = items /\ clashed' = clashed
    BY <1>7 DEF SaveParties
  <2>2. IntakesGoOn
    BY <1>1, <1>7, SavePartiesStep, NoneGoesOn DEF ImportMoves
  <2> QED BY <1>3, <2>1, <2>2
<1>8. CASE SaveLeads
  BY <1>3, <1>8, SaveLeadsTold DEF SaveLeads, QueueInv
<1>9. CASE CreateWorkItem \/ StartTop \/ CompleteTop
  <2>1. items' = items /\ clashed' = clashed
    BY <1>9 DEF CreateWorkItem, StartTop, CompleteTop, intakeVars
  <2> QED BY <1>1, <1>3, <1>9, <2>1, IntakeTold
<1>10. CASE PersistQueue
  BY <1>1, <1>10, PersistTold
<1>11. CASE IntakeFails \/ Crash \/ IntakeRaises
  <2>1. items' = items /\ clashed' = clashed
    BY <1>11 DEF IntakeFails, Crash, IntakeRaises, intakeVars
  <2>2. IntakesGoOn
    BY <1>1, <1>11, NoneGoesOn, UnwindTold
    DEF QueueInv, IntakeFails, Crash, IntakeRaises, TopIs, Return
  <2> QED BY <1>3, <2>1, <2>2
<1>12. CASE Intake
  BY <1>1, <1>2, <1>12, IntakeOpens
<1>13. ASSUME NEW lead \in files.leads, NEW due \in DueDates, HostAdds(lead, due)
       PROVE  QueueInv' /\ (clashed \/ Keeps(items, items'))
  <2>1. lead.id \in LeadIds(files.leads)
    BY DEF LeadIds
  <2>2. QueueOK(Added(items, lead.id, due), files.leads) /\ Keeps(items, Added(items, lead.id, due))
    BY <2>1, AddedOK DEF QueueInv
  <2> QED BY <1>13, <2>2, HostTold DEF HostAdds
<1>14. ASSUME NEW id \in 1 .. Len(items), HostTransitions(id)
       PROVE  QueueInv' /\ (clashed \/ Keeps(items, items'))
  <2>1. PICK status \in {"IN_PROGRESS"} \union Closed : HostSaves(Transitioned(items, id, status))
    BY <1>14 DEF HostTransitions
  <2>2. status \in Open \union Closed /\ MayTransition(items, id)
    BY <1>14, <2>1 DEF HostTransitions, Open
  <2>3. /\ QueueOK(Transitioned(items, id, status), files.leads)
        /\ Keeps(items, Transitioned(items, id, status))
    BY <2>2, TransitionedOK DEF QueueInv
  <2> QED BY <2>1, <2>3, HostTold
<1>15. CASE UNCHANGED <<stack, intakeVars>>
  BY <1>1, <1>3, <1>15, NoneGoesOn DEF intakeVars
<1> QED
  BY <1>4, <1>5, <1>6, <1>7, <1>8, <1>9, <1>10, <1>11, <1>12, <1>13, <1>14, <1>15
  DEF IntakeNext

-----------------------------------------------------------------------------
(* Theorems *)

\* After every exception, crash and retry the stored leads refer to stored companies,
\* contacts and campaigns: SalesRepository and import_and_persist save them first.
THEOREM LeadsAreWhole == IntakeSpec => [](overlapped \/ LeadsResolve)
<1>1. FilesInv => overlapped \/ LeadsResolve
  BY DEF FilesInv, LeadsResolve, Refers
<1> QED BY <1>1, FilesInit, FilesStep, PTL DEF IntakeSpec

\* The files fit together after every exception, crash and retry, and no import takes
\* back a lead, or a company, contact or campaign, that import_and_persist has stored.
THEOREM FilesAreWhole == IntakeSpec => FilesStayWhole
<1>1. ASSUME FilesInv, [IntakeNext]_<<stack, intakeVars>>
      PROVE  /\ [overlapped' \/ \A p \in Parties : \A key \in DOMAIN files[p] :
                    key \in DOMAIN files'[p] /\ files'[p][key] = files[p][key]]_<<stack, intakeVars>>
             /\ [files.leads \subseteq files'.leads]_<<stack, intakeVars>>
  BY <1>1, FilesStep DEF Extends
<1> QED BY <1>1, FilesInit, FilesStep, LeadsAreWhole, PTL
        DEF IntakeSpec, FilesStayWhole, PartiesAreKept, LeadsAreKept

\* Every stored work item is for a stored lead, although an intake holds the queue and
\* the leads of its import over several calls: create_work_item comes after the import.
THEOREM ItemsHaveLeads == IntakeSpec => []ItemsResolve
<1>1. QueueInv => ItemsResolve
  <2> SUFFICES ASSUME QueueInv, NEW i \in DOMAIN items
               PROVE  \E lead \in files.leads : lead.id = items[i].lead
    BY DEF ItemsResolve
  <2>1. items[i] \in Item(files.leads)
    BY DEF QueueInv, QueueOK
  <2> QED BY <2>1 DEF Item, LeadIds
<1> QED BY <1>1, FilesInit, FilesStep, QueueInit, QueueStep, PTL DEF IntakeSpec

\* What an intake starts and completes is the item that is due first in the queue it
\* holds: order_work_items looks at the dates of all open items.
THEOREM TopIsDueFirst == IntakeSpec => []DueFirst
<1>1. QueueInv => DueFirst
  BY DEF QueueInv, IntakesTold, Told, DueFirst, IsFirst, Before
<1> QED BY <1>1, FilesInit, FilesStep, QueueInit, QueueStep, PTL DEF IntakeSpec

\* A COMPLETED or SKIPPED item stays as it is stored: WorkQueue._transition refuses it,
\* and an intake that loaded the queue before saves it as it was.
THEOREM ClosedItemsStayClosed == IntakeSpec => ClosedItemsStay
<1>1. ASSUME FilesInv, QueueInv, [IntakeNext]_<<stack, intakeVars>>
      PROVE  [clashed \/ \A i \in DOMAIN items : items[i].status \in Closed =>
                 i \in DOMAIN items' /\ items'[i] = items[i]]_<<stack, intakeVars>>
  BY <1>1, QueueStep DEF Keeps
<1> QED BY <1>1, FilesInit, FilesStep, QueueInit, QueueStep, PTL
        DEF IntakeSpec, ClosedItemsStay

\* The queue of the sales module keeps its promise for any leads, dates and depth of
\* nested calls.
THEOREM WorkIsOrdered == IntakeSpec => WorkStaysInOrder
BY ItemsHaveLeads, TopIsDueFirst, ClosedItemsStayClosed, PTL DEF WorkStaysInOrder

-----------------------------------------------------------------------------
(* Lists of things that stand in them once *)

LEMMA FrontOf ==
    ASSUME NEW S, NEW s \in Seq(S), s # << >>
    PROVE  /\ Front(s) \in Seq(S)
           /\ Len(s) \in Nat \ {0} /\ DOMAIN s = 1 .. Len(s)
           /\ Len(Front(s)) = Len(s) - 1 /\ DOMAIN Front(s) = 1 .. Len(s) - 1
           /\ \A i \in 1 .. Len(s) - 1 : Front(s)[i] = s[i]
<1>1. Len(s) \in Nat \ {0} /\ DOMAIN s = 1 .. Len(s)
  OBVIOUS
<1> DEFINE n == Len(s) - 1
<1>2. n \in Nat /\ \A i \in 1 .. n : s[i] \in S
  BY <1>1
<1>3. Front(s) = SubSeq(s, 1, n)
  BY DEF Front
<1> HIDE DEF n
<1>4. Front(s) \in Seq(S)
  BY <1>2, <1>3, SubSeqProperties
<1>5. Len(Front(s)) = IF 1 <= n THEN n - 1 + 1 ELSE 0
  BY <1>2, <1>3, SubSeqProperties
<1>6. \A i \in 1 .. n - 1 + 1 : Front(s)[i] = s[1 + i - 1]
  BY <1>2, <1>3, SubSeqProperties
<1>7. Len(Front(s)) = n /\ DOMAIN Front(s) = 1 .. n /\ \A i \in 1 .. n : Front(s)[i] = s[i]
  BY <1>2, <1>4, <1>5, <1>6
<1> QED BY <1>1, <1>4, <1>7 DEF n

LEMMA RemoveAtOf ==
    ASSUME NEW S, NEW s \in Seq(S), NEW k \in 1 .. Len(s)
    PROVE  /\ RemoveAt(s, k) \in Seq(S) /\ Len(RemoveAt(s, k)) = Len(s) - 1
           /\ \A j \in 1 .. Len(s) - 1 :
                  RemoveAt(s, k)[j] = IF j < k THEN s[j] ELSE s[j + 1]
<1> DEFINE m == k - 1
           n == Len(s)
           before == SubSeq(s, 1, m)
           after == SubSeq(s, k + 1, n)
<1>1. n \in Nat /\ k \in 1 .. n /\ m \in Nat /\ k = m + 1 /\ \A i \in 1 .. n : s[i] \in S
  OBVIOUS
<1>2. RemoveAt(s, k) = before \o after
  BY DEF RemoveAt
<1>3. /\ before \in Seq(S) /\ Len(before) = m
      /\ \A j \in 1 .. m : before[j] = s[j]
  <2>1. \A i \in 1 .. m : s[i] \in S
    BY <1>1
  <2>2. before \in Seq(S)
    BY <2>1, <1>1, SubSeqProperties
  <2>3. Len(before) = IF 1 <= m THEN m - 1 + 1 ELSE 0
    BY <2>1, <1>1, SubSeqProperties
  <2>4. \A j \in 1 .. m - 1 + 1 : before[j] = s[1 + j - 1]
    BY <2>1, <1>1, SubSeqProperties
  <2> HIDE DEF before
  <2> QED BY <1>1, <2>2, <2>3, <2>4
<1>4. /\ after \in Seq(S) /\ Len(after) = n - k
      /\ \A j \in 1 .. n - k : after[j] = s[k + j]
  <2>1. \A i \in k + 1 .. n : s[i] \in S
    BY <1>1
  <2>2. after \in Seq(S)
    BY <2>1, <1>1, SubSeqProperties
  <2>3. Len(after) = IF k + 1 <= n THEN n - (k + 1) + 1 ELSE 0
    BY <2>1, <1>1, SubSeqProperties
  <2>4. \A j \in 1 .. n - (k + 1) + 1 : after[j] = s[k + 1 + j - 1]
    BY <2>1, <1>1, SubSeqProperties
  <2> HIDE DEF after
  <2> QED BY <1>1, <2>2, <2>3, <2>4
<1> HIDE DEF before, after
<1>5. RemoveAt(s, k) \in Seq(S) /\ Len(RemoveAt(s, k)) = n - 1
  BY <1>1, <1>2, <1>3, <1>4, ConcatProperties
<1>6. ASSUME NEW j \in 1 .. n - 1
      PROVE  RemoveAt(s, k)[j] = IF j < k THEN s[j] ELSE s[j + 1]
  <2>1. CASE j < k
    BY <1>1, <1>2, <1>3, <1>4, <2>1
  <2>2. CASE ~(j < k)
    <3>1. j - m \in 1 .. n - k /\ (before \o after)[j] = after[j - m]
      BY <1>1, <1>3, <1>4, <2>2
    <3>2. k + (j - m) = j + 1
      BY <1>1
    <3> QED BY <1>2, <1>4, <2>2, <3>1, <3>2
  <2> QED BY <2>1, <2>2
<1> QED BY <1>5, <1>6

\* What is left after one goes: the others, in their order, and each of them once.
LEMMA RemovedOf ==
    ASSUME NEW S, NEW s \in Seq(S), NEW h \in ToSet(s), IsInjective(s)
    PROVE  /\ Removed(s, h) \in Seq(S) /\ IsInjective(Removed(s, h))
           /\ \E k \in 1 .. Len(s) :
                  /\ s[k] = h /\ Len(Removed(s, h)) = Len(s) - 1
                  /\ \A j \in 1 .. Len(s) - 1 :
                         Removed(s, h)[j] = IF j < k THEN s[j] ELSE s[j + 1]
<1> DEFINE k == CHOOSE i \in DOMAIN s : s[i] = h
           t == Removed(s, h)
           n == Len(s)
<1>1. n \in Nat /\ DOMAIN s = 1 .. n
  OBVIOUS
<1>2. k \in 1 .. n /\ s[k] = h
  <2>1. \E i \in DOMAIN s : s[i] = h
    BY DEF ToSet
  <2> QED BY <1>1, <2>1
<1>3. t = RemoveAt(s, k)
  BY DEF Removed
<1> HIDE DEF k, t
<1>4. /\ t \in Seq(S) /\ Len(t) = n - 1
      /\ \A j \in 1 .. n - 1 : t[j] = IF j < k THEN s[j] ELSE s[j + 1]
  BY <1>2, <1>3, RemoveAtOf
<1>5. ASSUME NEW a \in DOMAIN t, NEW b \in DOMAIN t, t[a] = t[b] PROVE a = b
  <2> DEFINE old(j) == IF j < k THEN j ELSE j + 1
  <2>1. a \in 1 .. n - 1 /\ b \in 1 .. n - 1
    BY <1>4
  <2>2. old(a) \in 1 .. n /\ old(b) \in 1 .. n /\ (old(a) = old(b) => a = b)
    BY <1>1, <1>2, <2>1
  <2>3. s[old(a)] = s[old(b)]
    BY <1>4, <1>5, <2>1
  <2> QED BY <1>1, <2>2, <2>3 DEF IsInjective
<1>6. IsInjective(t)
  BY <1>5 DEF IsInjective
<1> QED BY <1>2, <1>4, <1>6 DEF t

\* One goes from the front of a list to the end of another: together they are the same.
LEMMA MovedOn ==
    ASSUME NEW S, NEW ran \in Seq(S), NEW left \in Seq(S), left # << >>
    PROVE  /\ Append(ran, Head(left)) \in Seq(S) /\ Tail(left) \in Seq(S)
           /\ Append(ran, Head(left)) \o Tail(left) = ran \o left
           /\ ToSet(Append(ran, Head(left))) \union ToSet(Tail(left)) = ToSet(ran) \union ToSet(left)
           /\ Len(left) # 1 => Tail(left) # << >>
           /\ Len(left) = 1 => ToSet(left) = {Head(left)}
<1> DEFINE m == Len(ran)
           n == Len(left)
           one == Append(ran, Head(left))
           two == Tail(left)
<1>1. m \in Nat /\ n \in Nat \ {0} /\ DOMAIN ran = 1 .. m /\ DOMAIN left = 1 .. n
  OBVIOUS
<1>2. /\ one \in Seq(S) /\ Len(one) = m + 1 /\ one[m + 1] = left[1]
      /\ \A i \in 1 .. m : one[i] = ran[i]
  OBVIOUS
<1>3. two \in Seq(S) /\ Len(two) = n - 1 /\ \A i \in 1 .. n - 1 : two[i] = left[i + 1]
  BY HeadTailProperties
<1> HIDE DEF one, two
<1>4. DOMAIN one = 1 .. m + 1 /\ DOMAIN two = 1 .. n - 1
  BY <1>1, <1>2, <1>3
<1>5. one \o two = ran \o left
  <2>1. one \o two \in Seq(S) /\ ran \o left \in Seq(S)
    BY <1>2, <1>3
  <2>2. Len(one \o two) = m + n /\ Len(ran \o left) = m + n
    <3>1. Len(one \o two) = Len(one) + Len(two)
      BY <1>2, <1>3, ConcatProperties
    <3>2. Len(ran \o left) = m + n
      BY ConcatProperties
    <3> HIDE DEF m, n
    <3>3. (m + 1) + (n - 1) = m + n
      BY <1>1
    <3> QED BY <1>2, <1>3, <3>1, <3>2, <3>3
  <2>3. ASSUME NEW i \in 1 .. m + n PROVE (one \o two)[i] = (ran \o left)[i]
    <3>1. CASE i \in 1 .. m
      BY <1>1, <1>2, <1>3, <3>1
    <3>2. CASE i = m + 1
      <4>1. (one \o two)[i] = left[1]
        BY <1>1, <1>2, <1>3, <3>2
      <4>2. (ran \o left)[i] = left[i - m] /\ i - m = 1
        BY <1>1, <3>2
      <4> QED BY <4>1, <4>2
    <3>3. CASE i \notin 1 .. m + 1
      <4>1. i - (m + 1) \in 1 .. n - 1 /\ (one \o two)[i] = two[i - (m + 1)]
        BY <1>1, <1>2, <1>3, <3>3
      <4>2. (ran \o left)[i] = left[i - m] /\ i - (m + 1) + 1 = i - m
        BY <1>1, <3>3
      <4> QED BY <1>3, <4>1, <4>2
    <3> HIDE DEF m, n
    <3>4. i \in 1 .. m \/ i = m + 1 \/ i \notin 1 .. m + 1
      BY <1>1
    <3> QED BY <3>1, <3>2, <3>3, <3>4
  <2> QED BY <2>1, <2>2, <2>3, SeqEqual
<1>6. ToSet(one) = ToSet(ran) \union {left[1]}
  <2>1. ASSUME NEW i \in 1 .. m + 1 PROVE one[i] \in ToSet(ran) \union {left[1]}
    <3>1. CASE i = m + 1
      BY <1>2, <3>1
    <3>2. CASE i # m + 1
      <4>1. i \in 1 .. m
        BY <1>1, <3>2
      <4>2. one[i] = ran[i]
        BY <1>2, <4>1
      <4> QED BY <1>1, <4>1, <4>2 DEF ToSet
    <3> QED BY <3>1, <3>2
  <2>2. ASSUME NEW i \in 1 .. m PROVE ran[i] \in ToSet(one)
    <3>1. i \in 1 .. m + 1
      BY <1>1
    <3>2. one[i] = ran[i]
      BY <1>2
    <3> QED BY <1>4, <3>1, <3>2 DEF ToSet
  <2>3. left[1] \in ToSet(one)
    <3>1. m + 1 \in 1 .. m + 1
      BY <1>1
    <3> QED BY <1>2, <1>4, <3>1 DEF ToSet
  <2>4. ToSet(one) \subseteq ToSet(ran) \union {left[1]}
    BY <1>4, <2>1 DEF ToSet
  <2>5. ToSet(ran) \subseteq ToSet(one)
    BY <1>1, <2>2 DEF ToSet
  <2> QED BY <2>3, <2>4, <2>5
<1>7. ToSet(left) = {left[1]} \union ToSet(two)
  <2>1. ASSUME NEW i \in 1 .. n PROVE left[i] \in {left[1]} \union ToSet(two)
    <3>1. CASE i = 1
      BY <3>1
    <3>2. CASE i # 1
      <4>1. i - 1 \in 1 .. n - 1 /\ i - 1 + 1 = i
        BY <1>1, <3>2
      <4>2. two[i - 1] = left[i]
        BY <1>3, <4>1
      <4> QED BY <1>4, <4>1, <4>2 DEF ToSet
    <3> QED BY <3>1, <3>2
  <2>2. ASSUME NEW i \in 1 .. n - 1 PROVE two[i] \in ToSet(left)
    <3>1. i + 1 \in 1 .. n
      BY <1>1
    <3>2. two[i] = left[i + 1]
      BY <1>3
    <3> QED BY <1>1, <3>1, <3>2 DEF ToSet
  <2>3. left[1] \in ToSet(left)
    BY <1>1 DEF ToSet
  <2>4. ToSet(left) \subseteq {left[1]} \union ToSet(two)
    BY <1>1, <2>1 DEF ToSet
  <2>5. ToSet(two) \subseteq ToSet(left)
    BY <1>4, <2>2 DEF ToSet
  <2> QED BY <2>3, <2>4, <2>5
<1>8. ToSet(one) \union ToSet(two) = ToSet(ran) \union ToSet(left)
  BY <1>6, <1>7
<1>9. n # 1 => two # << >>
  BY <1>1, <1>3
<1>10. n = 1 => ToSet(left) = {Head(left)}
  BY <1>1 DEF ToSet
<1> QED BY <1>2, <1>3, <1>5, <1>8, <1>9, <1>10 DEF one, two

-----------------------------------------------------------------------------
(* Types of events *)

\* No two publishers have a type in common (EventTypes).
LEMMA EveryTypeIsOnes == TypesApart
BY DEF TypesApart, Published, KnowledgeEvents, MemoryEvents, SchedulerEvents, TickEvents,
       IntentEvents, WorkflowEvents, ConversationEvents, DispatcherEvents, CapabilityEvents,
       PluginEvents, PlannerEvents, RuntimeEvents, ConnectorEvents, GraphEvents,
       IntegrationEvents, ReasoningEvents, DecisionEvents, SalesEvents

-----------------------------------------------------------------------------
(* The event bus: what is left of a copy and what has run of it are the copy, *)
(* which has each handler once and every steady one.                         *)

Subscribable == Handlers \union Adapters

BusFrames ==
    [call : {"publish"}, type : Types, intent : IntentNames \union {"none"},
     left : Seq(Subscribable), ran : Seq(Subscribable), steady : SUBSET Subscribable,
     at : {"handler", "calling", "raised"}]

Whole(f) ==
    /\ f.left # << >>
    /\ IsInjective(f.ran \o f.left)
    /\ f.steady \subseteq ToSet(f.ran) \union ToSet(f.left)

Dispatches(s) == s \in Seq(BusFrames) /\ Len(s) <= Depth /\ \A i \in DOMAIN s : Whole(s[i])

ListsOK ==
    /\ subscribers \in [Types -> Seq(Subscribable)]
    /\ \A type \in Types : IsInjective(subscribers[type])

BusInv == ListsOK /\ Dispatches(stack)

LEMMA DispatchesFront ==
    ASSUME NEW s, Dispatches(s), s # << >>
    PROVE  Dispatches(Front(s)) /\ Len(s) \in Nat \ {0} /\ Len(Front(s)) = Len(s) - 1
<1>1. s \in Seq(BusFrames) /\ Len(s) <= Depth /\ Depth \in Nat
  BY DepthAssumption DEF Dispatches
<1>2. /\ Front(s) \in Seq(BusFrames)
      /\ Len(s) \in Nat \ {0} /\ DOMAIN s = 1 .. Len(s)
      /\ Len(Front(s)) = Len(s) - 1 /\ DOMAIN Front(s) = 1 .. Len(s) - 1
      /\ \A i \in 1 .. Len(s) - 1 : Front(s)[i] = s[i]
  BY <1>1, FrontOf
<1>3. \A i \in 1 .. Len(s) - 1 : Whole(Front(s)[i])
  BY <1>2 DEF Dispatches
<1> QED BY <1>1, <1>2, <1>3 DEF Dispatches

LEMMA DispatchesSet ==
    ASSUME NEW s, Dispatches(s), NEW n \in DOMAIN s, NEW f \in BusFrames, Whole(f)
    PROVE  Dispatches([s EXCEPT ![n] = f]) /\ Len([s EXCEPT ![n] = f]) = Len(s)
<1>1. s \in Seq(BusFrames) /\ Len(s) <= Depth
  BY DEF Dispatches
<1>2. [s EXCEPT ![n] = f] \in Seq(BusFrames) /\ Len([s EXCEPT ![n] = f]) = Len(s)
  BY <1>1
<1>3. \A i \in DOMAIN s : Whole([s EXCEPT ![n] = f][i])
  BY <1>1 DEF Dispatches
<1>4. DOMAIN [s EXCEPT ![n] = f] = DOMAIN s
  OBVIOUS
<1> QED BY <1>1, <1>2, <1>3, <1>4 DEF Dispatches

LEMMA DispatchesPush ==
    ASSUME NEW s, Dispatches(s), Len(s) < Depth, NEW f \in BusFrames, Whole(f)
    PROVE  Dispatches(Append(s, f)) /\ Len(Append(s, f)) = Len(s) + 1 /\ Len(s) \in Nat
<1>1. s \in Seq(BusFrames) /\ Len(s) <= Depth /\ Depth \in Nat
  BY DepthAssumption DEF Dispatches
<1>2. Append(s, f) \in Seq(BusFrames) /\ Len(Append(s, f)) = Len(s) + 1 /\ Len(s) \in Nat
  BY <1>1
<1>3. ASSUME NEW i \in DOMAIN Append(s, f) PROVE Whole(Append(s, f)[i])
  <2>1. i \in 1 .. Len(s) + 1
    BY <1>2
  <2>2. CASE i \in 1 .. Len(s)
    <3>1. Append(s, f)[i] = s[i] /\ i \in DOMAIN s
      BY <1>1, <2>2
    <3> QED BY <3>1 DEF Dispatches
  <2>3. CASE i = Len(s) + 1
    BY <1>1, <2>3
  <2> QED BY <1>2, <2>1, <2>2, <2>3
<1> QED BY <1>1, <1>2, <1>3 DEF Dispatches

LEMMA DispatchesTop ==
    ASSUME Dispatches(stack), Busy
    PROVE  /\ Len(stack) \in Nat \ {0} /\ DOMAIN stack = 1 .. Len(stack)
           /\ Len(stack) \in DOMAIN stack /\ Top = stack[Len(stack)]
           /\ Top \in BusFrames /\ Whole(Top)
<1>1. stack \in Seq(BusFrames) /\ stack # << >>
  BY DEF Dispatches, Busy
<1>2. Len(stack) \in Nat \ {0} /\ DOMAIN stack = 1 .. Len(stack) /\ Top = stack[Len(stack)]
  BY <1>1 DEF Top, Last
<1>3. Len(stack) \in DOMAIN stack
  BY <1>2
<1> QED BY <1>1, <1>2, <1>3 DEF Dispatches

\* The innermost dispatch ends, and the one that waits for it learns how.
LEMMA EndKeeps ==
    ASSUME Dispatches(stack), Busy, Return \/ Unwind
    PROVE  Dispatches(stack')
<1> DEFINE below == Front(stack)
           n == Len(below)
<1>1. Dispatches(below)
  BY DispatchesFront DEF Busy
<1>2. CASE stack' = below
  BY <1>1, <1>2
<1>3. CASE below # << >> /\ stack' = [below EXCEPT ![n].at = "raised"]
  <2> DEFINE f == [below[n] EXCEPT !.at = "raised"]
  <2>1. below \in Seq(BusFrames)
    BY <1>1 DEF Dispatches
  <2> HIDE DEF below
  <2>2. n \in DOMAIN below /\ below[n] \in BusFrames
    BY <1>3, <2>1
  <2>3. Whole(below[n])
    BY <1>1, <2>2 DEF Dispatches
  <2>4. /\ f \in BusFrames
        /\ f.left = below[n].left /\ f.ran = below[n].ran /\ f.steady = below[n].steady
    BY <2>2 DEF BusFrames
  <2>5. Whole(f)
    BY <2>3, <2>4 DEF Whole
  <2>6. stack' = [below EXCEPT ![n] = f]
    BY <1>3
  <2> HIDE DEF f, n
  <2> QED BY <1>1, <2>2, <2>4, <2>5, <2>6, DispatchesSet
<1> QED BY <1>2, <1>3 DEF Return, Unwind, Unwound, Last

LEMMA AdvanceKeeps ==
    ASSUME Dispatches(stack), Busy, Advance
    PROVE  /\ Dispatches(stack')
           /\ Len(stack') < Len(stack) => Len(Top.left) = 1
<1> DEFINE n == Len(stack)
           f == [Top EXCEPT !.left = Tail(Top.left), !.ran = Append(Top.ran, Running),
                            !.at = "handler"]
<1>1. n \in Nat \ {0} /\ n \in DOMAIN stack /\ Top = stack[n] /\ Top \in BusFrames /\ Whole(Top)
  BY DispatchesTop
<1>2. CASE Len(Top.left) = 1
  BY <1>2, EndKeeps DEF Advance
<1>3. CASE Len(Top.left) # 1
  <2>1. stack' = [stack EXCEPT ![n] = f]
    BY <1>1, <1>3 DEF Advance
  <2> DEFINE left == Top.left
             ran == Top.ran
  <2>2. left \in Seq(Subscribable) /\ ran \in Seq(Subscribable) /\ left # << >>
    BY <1>1 DEF BusFrames, Whole
  <2>3. /\ Append(ran, Head(left)) \in Seq(Subscribable) /\ Tail(left) \in Seq(Subscribable)
        /\ Append(ran, Head(left)) \o Tail(left) = ran \o left
        /\ ToSet(Append(ran, Head(left))) \union ToSet(Tail(left)) = ToSet(ran) \union ToSet(left)
        /\ Tail(left) # << >>
    <3>1. Len(left) # 1
      BY <1>3
    <3> HIDE DEF left, ran
    <3>2. Append(ran, Head(left)) \in Seq(Subscribable) /\ Tail(left) \in Seq(Subscribable)
      BY <2>2, MovedOn, Zenon
    <3>3. Append(ran, Head(left)) \o Tail(left) = ran \o left
      BY <2>2, MovedOn, Zenon
    <3>4. ToSet(Append(ran, Head(left))) \union ToSet(Tail(left)) = ToSet(ran) \union ToSet(left)
      BY <2>2, MovedOn
    <3>5. Len(left) # 1 => Tail(left) # << >>
      BY <2>2, MovedOn, Zenon
    <3> QED BY <3>1, <3>2, <3>3, <3>4, <3>5, Zenon
  <2>4. /\ f \in BusFrames /\ f.steady = Top.steady
        /\ f.left = Tail(left) /\ f.ran = Append(ran, Head(left))
    BY <1>1, <2>3 DEF BusFrames, Running
  <2> HIDE DEF f
  <2>5. Whole(f)
    BY <1>1, <2>3, <2>4, Zenon DEF Whole
  <2>6. Dispatches(stack') /\ Len(stack') = n
    BY <1>1, <2>1, <2>4, <2>5, DispatchesSet
  <2> QED BY <1>1, <2>6
<1> QED BY <1>2, <1>3

LEMMA CopyIsWhole ==
    ASSUME ListsOK, NEW event \in Events, subscribers[event.type] # << >>
    PROVE  Dispatching(event) \in BusFrames /\ Whole(Dispatching(event))
<1> DEFINE copy == subscribers[event.type]
           f == Dispatching(event)
<1>1. event.type \in Types /\ event.intent \in IntentNames \union {"none"}
  BY DEF Events, Failure, Types
<1>2. copy \in Seq(Subscribable) /\ IsInjective(copy)
  BY <1>1 DEF ListsOK
<1>3. ToSet(copy) \subseteq Subscribable
  BY <1>2 DEF ToSet
<1>4. f = [call |-> "publish", type |-> event.type, intent |-> event.intent, left |-> copy,
           ran |-> << >>, steady |-> ToSet(copy), at |-> "handler"]
  BY DEF Dispatching
<1> HIDE DEF copy
<1>5. f \in BusFrames
  BY <1>1, <1>2, <1>3, <1>4 DEF BusFrames
<1>6. << >> \o copy = copy
  BY <1>2, ConcatEmptySeq
<1>7. f.left = copy /\ f.ran = << >> /\ f.steady = ToSet(copy) /\ f.left # << >>
  BY <1>4 DEF copy
<1> HIDE DEF f
<1>8. Whole(f)
  BY <1>2, <1>6, <1>7 DEF Whole
<1> QED BY <1>5, <1>8 DEF f

LEMMA SubscribeKeeps ==
    ASSUME BusInv, NEW type \in Types, NEW h \in Subscribable, Subscribe(type, h)
    PROVE  BusInv' /\ stack' = stack
<1> DEFINE list == subscribers[type]
<1>1. /\ list \in Seq(Subscribable) /\ IsInjective(list) /\ h \notin ToSet(list)
      /\ subscribers' = [subscribers EXCEPT ![type] = Append(list, h)] /\ stack' = stack
  BY DEF BusInv, ListsOK, Subscribe, Subscribed
<1> HIDE DEF list
<1>2. Append(list, h) \in Seq(Subscribable)
  BY <1>1
<1>3. IsInjective(Append(list, h))
  <2>1. /\ Len(list) \in Nat /\ DOMAIN list = 1 .. Len(list)
        /\ DOMAIN Append(list, h) = 1 .. Len(list) + 1
        /\ \A i \in 1 .. Len(list) : Append(list, h)[i] = list[i]
        /\ Append(list, h)[Len(list) + 1] = h
    BY <1>1
  <2>2. \A i \in 1 .. Len(list) : list[i] # h
    BY <1>1, <2>1 DEF ToSet
  <2> QED BY <1>1, <2>1, <2>2 DEF IsInjective
<1>4. ListsOK'
  BY <1>1, <1>2, <1>3 DEF BusInv, ListsOK
<1> QED BY <1>1, <1>4 DEF BusInv

LEMMA UnsubscribeKeeps ==
    ASSUME BusInv, NEW type \in Types, NEW h \in Handlers, Unsubscribe(type, h)
    PROVE  BusInv' /\ Len(stack') = Len(stack)
<1> DEFINE list == subscribers[type]
<1>1. /\ list \in Seq(Subscribable) /\ IsInjective(list) /\ h \in ToSet(list)
      /\ subscribers' = [subscribers EXCEPT ![type] = Removed(list, h)]
  BY DEF BusInv, ListsOK, Unsubscribe, Subscribed
<1> HIDE DEF list
<1>2. Removed(list, h) \in Seq(Subscribable) /\ IsInjective(Removed(list, h))
  BY <1>1, RemovedOf
<1>3. ListsOK'
  BY <1>1, <1>2 DEF BusInv, ListsOK
<1> DEFINE g(f) == IF f.type = type THEN [f EXCEPT !.steady = @ \ {h}] ELSE f
<1>4. stack' = [i \in DOMAIN stack |-> g(stack[i])]
  BY DEF Unsubscribe
<1>5. stack \in Seq(BusFrames) /\ Len(stack) <= Depth
  BY DEF BusInv, Dispatches
<1>6. ASSUME NEW f \in BusFrames, Whole(f) PROVE g(f) \in BusFrames /\ Whole(g(f))
  <2>1. CASE f.type # type
    BY <1>6, <2>1
  <2>2. CASE f.type = type
    <3>1. /\ g(f) \in BusFrames /\ g(f).left = f.left /\ g(f).ran = f.ran
          /\ g(f).steady \subseteq f.steady
      BY <2>2 DEF BusFrames
    <3> HIDE DEF g
    <3> QED BY <1>6, <3>1 DEF Whole
  <2> QED BY <2>1, <2>2
<1> HIDE DEF g
<1>7. \A i \in DOMAIN stack : g(stack[i]) \in BusFrames /\ Whole(g(stack[i]))
  BY <1>5, <1>6 DEF BusInv, Dispatches
<1>8. stack' \in Seq(BusFrames) /\ Len(stack') = Len(stack) /\ DOMAIN stack' = DOMAIN stack
  BY <1>4, <1>5, <1>7
<1>9. Dispatches(stack')
  BY <1>4, <1>5, <1>7, <1>8 DEF Dispatches
<1> QED BY <1>3, <1>8, <1>9 DEF BusInv

LEMMA PublishKeeps ==
    ASSUME BusInv, NEW event \in Events, Publish(event)
    PROVE  BusInv' /\ Len(stack') = Len(stack) + 1 /\ Len(stack) \in Nat
<1>1. Dispatching(event) \in BusFrames /\ Whole(Dispatching(event))
  BY CopyIsWhole DEF BusInv, Publish
<1>2. stack' = Append(stack, Dispatching(event)) /\ Len(stack) < Depth /\ subscribers' = subscribers
  BY DEF Publish, Enter, Opened, MayCall
<1>3. Dispatches(stack') /\ Len(stack') = Len(stack) + 1 /\ Len(stack) \in Nat
  BY <1>1, <1>2, DispatchesPush DEF BusInv
<1> QED BY <1>2, <1>3 DEF BusInv, ListsOK

LEMMA CatchKeeps ==
    ASSUME BusInv, AdapterCatches
    PROVE  BusInv' /\ (Len(stack') < Len(stack) => Len(Top.left) = 1)
<1> DEFINE failed == Dispatching(Failure)
           n == Len(stack)
           f == [Top EXCEPT !.at = "calling"]
<1>1. Busy /\ Dispatches(stack) /\ subscribers' = subscribers
  BY DEF AdapterCatches, TopIs, BusInv
<1>2. CASE Advance
  BY <1>1, <1>2, AdvanceKeeps DEF BusInv, ListsOK
<1>3. CASE /\ failed.left # << >> /\ n < Depth
           /\ stack' = Append([stack EXCEPT ![n].at = "calling"], failed)
  <2>1. n \in Nat \ {0} /\ n \in DOMAIN stack /\ Top = stack[n] /\ Top \in BusFrames /\ Whole(Top)
    BY <1>1, DispatchesTop
  <2>2. /\ f \in BusFrames /\ f.left = Top.left /\ f.ran = Top.ran /\ f.steady = Top.steady
    BY <2>1 DEF BusFrames
  <2>3. Whole(f)
    BY <2>1, <2>2 DEF Whole
  <2>4. [stack EXCEPT ![n].at = "calling"] = [stack EXCEPT ![n] = f]
    BY <2>1
  <2>5. failed \in BusFrames /\ Whole(failed)
    <3>1. Failure \in Events /\ failed.left = subscribers[Failure.type]
      BY DEF Events, Dispatching
    <3> QED BY <1>3, <3>1, CopyIsWhole DEF BusInv
  <2> DEFINE s == [stack EXCEPT ![n] = f]
  <2> HIDE DEF f, failed
  <2>6. Dispatches(s) /\ Len(s) = n
    BY <1>1, <2>1, <2>2, <2>3, DispatchesSet
  <2> HIDE DEF s
  <2>7. Dispatches(Append(s, failed)) /\ Len(Append(s, failed)) = n + 1
    BY <1>3, <2>5, <2>6, DispatchesPush
  <2>8. stack' = Append(s, failed)
    BY <1>3, <2>4 DEF s
  <2> QED BY <1>1, <2>1, <2>7, <2>8 DEF BusInv, ListsOK
<1> QED BY <1>2, <1>3 DEF AdapterCatches

LEMMA BusStep ==
    ASSUME BusInv, BusNext
    PROVE  BusInv' /\ Isolated
<1> DEFINE kept == BusInv' /\ (Len(stack') < Len(stack) => Len(Top.left) = 1)
<1>1. ASSUME kept PROVE BusInv' /\ Isolated
  <2>1. Ends => ~(Len(Top.left) > 1)
    <3>1. \A n : n = 1 => ~(n > 1)
      OBVIOUS
    <3> QED BY <1>1, <3>1, Zenon DEF Ends
  <2>2. Isolated
    BY <2>1, Zenon DEF Isolated
  <2> QED BY <1>1, <2>2
<1>2. ASSUME NEW type \in Types, NEW h \in Handlers, Subscribe(type, h) \/ Unsubscribe(type, h)
      PROVE  kept
  <2>1. h \in Subscribable /\ Len(stack) \in Nat
    BY DEF Subscribable, BusInv, Dispatches
  <2>2. CASE Subscribe(type, h)
    BY <2>1, <2>2, SubscribeKeeps
  <2>3. CASE Unsubscribe(type, h)
    BY <2>1, <2>3, UnsubscribeKeeps
  <2> QED BY <1>2, <2>2, <2>3
<1>3. ASSUME NEW adapter \in Adapters, RegisterHandler(adapter) PROVE kept
  <2>1. adapter \in Subscribable /\ "INTENT_ROUTED" \in Types /\ Len(stack) \in Nat
    BY DEF Subscribable, Types, BusInv, Dispatches
  <2>2. Subscribe("INTENT_ROUTED", adapter)
    BY <1>3 DEF RegisterHandler
  <2> QED BY <2>1, <2>2, SubscribeKeeps
<1>4. ASSUME NEW event \in Events, Publish(event) PROVE kept
  BY <1>4, PublishKeeps
<1>5. ASSUME HandlerReturns \/ FailureAnnounced PROVE kept
  <2>1. Busy /\ Dispatches(stack) /\ Advance /\ subscribers' = subscribers
    BY <1>5 DEF HandlerReturns, FailureAnnounced, TopIs, BusInv
  <2> QED BY <2>1, AdvanceKeeps DEF BusInv, ListsOK
<1>6. ASSUME HandlerRaises PROVE BusInv' /\ Isolated
  <2>1. Busy /\ Dispatches(stack) /\ Unwind /\ subscribers' = subscribers /\ Running \notin Adapters
    BY <1>6 DEF HandlerRaises, TopIs, BusInv
  <2>2. BusInv'
    BY <2>1, EndKeeps DEF BusInv, ListsOK
  <2> QED BY <2>1, <2>2 DEF Isolated
<1>7. CASE AdapterCatches
  BY <1>1, <1>7, CatchKeeps
<1>8. ASSUME AnnouncingRaised PROVE BusInv' /\ Isolated
  <2>1. Busy /\ Dispatches(stack) /\ Unwind /\ subscribers' = subscribers /\ Top.at = "raised"
    BY <1>8 DEF AnnouncingRaised, TopIs, BusInv
  <2>2. BusInv'
    BY <2>1, EndKeeps DEF BusInv, ListsOK
  <2> QED BY <2>1, <2>2 DEF Isolated
<1> HIDE DEF kept
<1> QED BY <1>1, <1>2, <1>3, <1>4, <1>5, <1>6, <1>7, <1>8 DEF BusNext

\* What has not run of a whole dispatch at its last handler is that handler.
LEMMA BusAdvanced ==
    ASSUME BusInv, BusInv'
    PROVE  Advanced
<1> SUFFICES ASSUME Ends, ~(Len(Top.left) > 1)
             PROVE  Top.steady \subseteq ToSet(Append(Top.ran, Running))
  BY DEF Advanced
<1>1. stack \in Seq(BusFrames) /\ stack' \in Seq(BusFrames) /\ Len(stack') < Len(stack)
  BY DEF Ends, BusInv, Dispatches
<1>2. Busy
  BY <1>1 DEF Busy
<1>3. Top \in BusFrames /\ Whole(Top)
  BY <1>2, DispatchesTop DEF BusInv
<1> DEFINE left == Top.left
           ran == Top.ran
<1>4. left \in Seq(Subscribable) /\ ran \in Seq(Subscribable) /\ left # << >> /\ ~(Len(left) > 1)
  BY <1>3 DEF BusFrames, Whole
<1>5. Top.steady \subseteq ToSet(ran) \union ToSet(left) /\ Running = Head(left)
  BY <1>3 DEF Whole, Running
<1> HIDE DEF left, ran
<1>6. Len(left) = 1 /\ Tail(left) = << >>
  <2>1. Len(left) \in Nat \ {0}
    BY <1>4
  <2>2. Len(left) = 1
    <3>1. \A n \in Nat \ {0} : n > 1 \/ n = 1
      OBVIOUS
    <3> QED BY <1>4, <2>1, <3>1, Zenon
  <2>3. Tail(left) \in Seq(Subscribable) /\ Len(Tail(left)) = Len(left) - 1
    BY <1>4, HeadTailProperties
  <2>4. Len(Tail(left)) = 0
    BY <2>2, <2>3
  <2>5. \A s \in Seq(Subscribable) : Len(s) = 0 => s = << >>
    OBVIOUS
  <2> QED BY <2>2, <2>3, <2>4, <2>5, Zenon
<1>7. ToSet(Append(ran, Head(left))) \union ToSet(Tail(left)) = ToSet(ran) \union ToSet(left)
  BY <1>4, MovedOn
<1>8. ToSet(<< >>) = {}
  BY DEF ToSet
<1>9. Top.steady \subseteq ToSet(Append(ran, Running))
  BY <1>5, <1>6, <1>7, <1>8
<1> QED BY <1>9 DEF ran

LEMMA BusStart == BusInit => BusInv
<1> SUFFICES ASSUME BusInit PROVE BusInv
  OBVIOUS
<1>1. << >> \in Seq(Subscribable) /\ << >> \in Seq(BusFrames) /\ Len(<< >>) = 0 /\ DOMAIN << >> = {}
  OBVIOUS
<1>2. IsInjective(<< >>)
  BY <1>1 DEF IsInjective
<1>3. ListsOK
  BY <1>1, <1>2 DEF BusInit, ListsOK
<1>4. Dispatches(<< >>)
  BY <1>1, DepthAssumption DEF Dispatches
<1> QED BY <1>3, <1>4 DEF BusInit, BusInv

\* A dispatch is no call that announces.
LEMMA BusProperties == BusInv => BusTypeOK /\ RunsOnce /\ OwnEvents(stack)
<1> SUFFICES ASSUME BusInv PROVE BusTypeOK /\ RunsOnce /\ OwnEvents(stack)
  OBVIOUS
<1>1. \A i \in DOMAIN stack : stack[i] \in BusFrames /\ Whole(stack[i])
  BY DEF BusInv, Dispatches
<1>2. BusTypeOK
  BY <1>1 DEF BusTypeOK, BusInv, Dispatches, ListsOK, Subscribable, BusFrames, Whole
<1>3. RunsOnce
  BY <1>1 DEF RunsOnce, Whole
<1>4. \A i \in DOMAIN stack : stack[i].call \notin DOMAIN Announces
  BY <1>1 DEF BusFrames, Announces
<1>5. OwnEvents(stack)
  BY <1>4, EveryTypeIsOnes DEF OwnEvents
<1> QED BY <1>2, <1>3, <1>5

\* Every event arrives, and once, at each handler that is there for it from its
\* beginning to its end, whatever the handlers do to the subscriptions (EventBus.publish,
\* IntentRouter.register_handler).
THEOREM EventsArriveAlways == BusSpec => EventsArrive
<1>1. BusInv /\ [BusNext]_busVars => BusInv' /\ [Advanced]_busVars /\ [Isolated]_busVars
  <2>1. BusInv /\ UNCHANGED busVars => BusInv'
    BY DEF busVars, BusInv, ListsOK
  <2> QED BY <2>1, BusStep, BusAdvanced
<1> QED BY <1>1, BusStart, BusProperties, PTL
        DEF BusSpec, EventsArrive, SteadyHandlersRun, FailuresIsolated

-----------------------------------------------------------------------------
(* The order of the rules: each has a place of its own                       *)

LEMMA BeforeIsOrder ==
    ASSUME DecisionTypeOK
    PROVE  /\ Len(rules) \in Nat /\ DOMAIN rules = 1 .. Len(rules)
           /\ \A i \in DOMAIN rules : ~GoesBefore(i, i)
           /\ \A i, j \in DOMAIN rules : i = j \/ GoesBefore(i, j) \/ GoesBefore(j, i)
           /\ \A i, j, k \in DOMAIN rules : GoesBefore(i, j) /\ GoesBefore(j, k) => GoesBefore(i, k)
<1>1. Len(rules) \in Nat /\ DOMAIN rules = 1 .. Len(rules)
  BY DEF DecisionTypeOK
<1>2. \A i \in DOMAIN rules : rules[i].priority \in Int /\ i \in Int
  BY <1>1, RulesAssumption DEF DecisionTypeOK
<1>3. \A i \in DOMAIN rules : ~GoesBefore(i, i)
  BY <1>2 DEF GoesBefore
<1>4. \A i, j \in DOMAIN rules : i = j \/ GoesBefore(i, j) \/ GoesBefore(j, i)
  BY <1>2 DEF GoesBefore
<1>5. ASSUME NEW i \in DOMAIN rules, NEW j \in DOMAIN rules, NEW k \in DOMAIN rules,
             GoesBefore(i, j), GoesBefore(j, k)
      PROVE  GoesBefore(i, k)
  BY <1>2, <1>5 DEF GoesBefore
<1> QED BY <1>1, <1>3, <1>4, <1>5

Place(i) == Cardinality(Earlier(i))

LEMMA PlaceGrows ==
    ASSUME DecisionTypeOK, NEW i \in DOMAIN rules
    PROVE  /\ Place(i) \in 0 .. Len(rules) - 1
           /\ \A j \in DOMAIN rules : GoesBefore(i, j) => Place(i) < Place(j)
<1>1. Len(rules) \in Nat /\ DOMAIN rules = 1 .. Len(rules)
  BY BeforeIsOrder
<1> DEFINE D == DOMAIN rules
<1>2. IsFiniteSet(D) /\ Cardinality(D) = Len(rules)
  <2> DEFINE n == Len(rules)
  <2>1. n \in Int /\ 1 \in Int /\ D = 1 .. n
    BY <1>1
  <2>2. IsFiniteSet(1 .. n) /\ Cardinality(1 .. n) = IF 1 > n THEN 0 ELSE n - 1 + 1
    BY <2>1, FS_Interval
  <2>3. (IF 1 > n THEN 0 ELSE n - 1 + 1) = n
    BY <1>1
  <2> QED BY <2>1, <2>2, <2>3
<1>3. \A k \in D : Earlier(k) \in SUBSET D /\ k \notin Earlier(k)
  BY BeforeIsOrder DEF Earlier
<1>4. ASSUME NEW S, IsFiniteSet(S), NEW T \in SUBSET S, NEW x \in S, x \notin T
      PROVE  /\ IsFiniteSet(T) /\ Cardinality(T) \in Nat /\ Cardinality(S) \in Nat
             /\ Cardinality(T) < Cardinality(S)
  <2>1. IsFiniteSet(T) /\ Cardinality(T) <= Cardinality(S) /\ Cardinality(S) # Cardinality(T)
    BY <1>4, FS_Subset
  <2>2. Cardinality(T) \in Nat /\ Cardinality(S) \in Nat
    BY <1>4, <2>1, FS_CardinalityType
  <2> QED BY <2>1, <2>2
<1>5. /\ IsFiniteSet(Earlier(i)) /\ Cardinality(Earlier(i)) \in Nat
      /\ Cardinality(Earlier(i)) < Cardinality(D)
  BY <1>2, <1>3, <1>4
<1>6. Place(i) \in 0 .. Len(rules) - 1
  BY <1>1, <1>2, <1>5 DEF Place
<1>7. ASSUME NEW j \in D, GoesBefore(i, j) PROVE Place(i) < Place(j)
  <2>1. IsFiniteSet(Earlier(j))
    BY <1>2, <1>3, FS_Subset
  <2>2. i \in Earlier(j) /\ i \notin Earlier(i)
    BY <1>3, <1>7 DEF Earlier
  <2>3. Earlier(i) \in SUBSET Earlier(j)
    BY <1>7, BeforeIsOrder DEF Earlier
  <2> QED BY <1>4, <2>1, <2>2, <2>3 DEF Place
<1> QED BY <1>6, <1>7

\* Which rule comes n-th.
Nth(n) == CHOOSE i \in DOMAIN rules : Cardinality(Earlier(i)) = n - 1

LEMMA EveryPlaceIsTaken ==
    ASSUME DecisionTypeOK
    PROVE  /\ \A n \in DOMAIN rules : Nth(n) \in DOMAIN rules /\ Place(Nth(n)) = n - 1
           /\ \A i \in DOMAIN rules : \E n \in DOMAIN rules : Nth(n) = i
<1>1. Len(rules) \in Nat /\ DOMAIN rules = 1 .. Len(rules)
  BY BeforeIsOrder
<1> DEFINE D == DOMAIN rules
           place == [i \in D |-> Place(i) + 1]
<1>2. \A i \in D : Place(i) \in 0 .. Len(rules) - 1
  BY PlaceGrows
<1>3. place \in [D -> D]
  BY <1>1, <1>2
<1>4. ASSUME NEW i \in D, NEW j \in D, Place(i) = Place(j) PROVE i = j
  <2>1. ~GoesBefore(i, j) /\ ~GoesBefore(j, i)
    BY <1>2, <1>4, PlaceGrows
  <2> QED BY <2>1, BeforeIsOrder
<1>5. \A i, j \in D : place[i] = place[j] => i = j
  BY <1>2, <1>4
<1>6. place \in Injection(D, D)
  BY <1>3, <1>5 DEF Injection, IsInjective
<1>7. IsFiniteSet(D)
  BY <1>1, FS_Interval
<1>8. place \in Surjection(D, D)
  BY <1>6, <1>7, FS_Injection
<1>9. ASSUME NEW n \in D PROVE Nth(n) \in D /\ Place(Nth(n)) = n - 1
  <2>1. PICK i \in D : place[i] = n
    BY <1>8 DEF Surjection
  <2>2. Place(i) = n - 1
    BY <1>1, <1>2, <2>1
  <2> QED BY <2>2 DEF Nth, Place
<1>10. ASSUME NEW i \in D PROVE \E n \in D : Nth(n) = i
  <2>1. place[i] \in D /\ Place(i) = place[i] - 1
    BY <1>1, <1>2, <1>3
  <2>2. Nth(place[i]) = i
    BY <1>4, <1>9, <2>1
  <2> QED BY <2>1, <2>2
<1> QED BY <1>9, <1>10

\* Where a rule stands in a list that has it once.
At(rs, rule) == CHOOSE i \in DOMAIN rs : rs[i] = rule

RulesOf(rs) == rs \in Seq(Rules) /\ \A i, j \in DOMAIN rs : rs[i].id = rs[j].id => i = j

LEMMA AtIs ==
    ASSUME NEW rs, RulesOf(rs), NEW i \in DOMAIN rs
    PROVE  At(rs, rs[i]) = i
<1>1. \A j \in DOMAIN rs : rs[j] = rs[i] => j = i
  BY DEF RulesOf
<1> QED BY <1>1 DEF At

\* Of two rules that are in order the first has the lower number, or was registered first.
Comes(first, second, kept, rs) ==
    /\ first.priority <= second.priority
    /\ first.priority = second.priority /\ {first, second} \subseteq kept
           => At(rs, first) < At(rs, second)

InOrder(list, kept, rs) ==
    \A i, j \in DOMAIN list : i < j => Comes(list[i], list[j], kept, rs)

LEMMA ListRulesIsOrder ==
    ASSUME DecisionTypeOK
    PROVE  /\ ListRules \in Seq(Rules) /\ IsInjective(ListRules)
           /\ ToSet(ListRules) = ToSet(rules)
           /\ \A kept : InOrder(ListRules, kept, rules)
<1> DEFINE D == DOMAIN rules
<1>1. Len(rules) \in Nat /\ D = 1 .. Len(rules) /\ \A i \in D : rules[i] \in Rules
  BY DEF DecisionTypeOK
<1>2. DOMAIN ListRules = D /\ \A n \in D : ListRules[n] = rules[Nth(n)]
  BY DEF ListRules, Nth
<1>3. /\ \A n \in D : Nth(n) \in D /\ Place(Nth(n)) = n - 1
      /\ \A i \in D : \E n \in D : Nth(n) = i
  BY EveryPlaceIsTaken
<1>4. ListRules \in Seq(Rules)
  <2>1. ListRules = [n \in 1 .. Len(rules) |-> rules[Nth(n)]]
    BY <1>1 DEF ListRules, Nth
  <2>2. \A n \in 1 .. Len(rules) : rules[Nth(n)] \in Rules
    BY <1>1, <1>3
  <2> QED BY <1>1, <2>1, <2>2
<1>5. IsInjective(ListRules)
  <2> SUFFICES ASSUME NEW m \in D, NEW n \in D, ListRules[m] = ListRules[n] PROVE m = n
    BY <1>2 DEF IsInjective
  <2>1. Nth(m) = Nth(n)
    BY <1>2, <1>3 DEF DecisionTypeOK
  <2>2. m - 1 = n - 1
    BY <1>3, <2>1
  <2> QED BY <1>1, <2>2
<1>6. ToSet(ListRules) = ToSet(rules)
  <2>1. \A n \in D : ListRules[n] \in ToSet(rules)
    BY <1>2, <1>3 DEF ToSet
  <2>2. ASSUME NEW i \in D PROVE rules[i] \in ToSet(ListRules)
    <3>1. PICK n \in D : Nth(n) = i
      BY <1>3
    <3> QED BY <1>2, <3>1 DEF ToSet
  <2>3. ToSet(ListRules) \subseteq ToSet(rules)
    BY <1>2, <2>1 DEF ToSet
  <2>4. ToSet(rules) \subseteq ToSet(ListRules)
    BY <2>2 DEF ToSet
  <2> QED BY <2>3, <2>4
<1>7. ASSUME NEW kept, NEW m \in D, NEW n \in D, m < n
      PROVE  Comes(ListRules[m], ListRules[n], kept, rules)
  <2> DEFINE i == Nth(m)
             j == Nth(n)
  <2>0. m \in Int /\ n \in Int
    BY <1>1
  <2>1. i \in D /\ j \in D /\ Place(i) = m - 1 /\ Place(j) = n - 1
    BY <1>3
  <2>2. ListRules[m] = rules[i] /\ ListRules[n] = rules[j]
    BY <1>2
  <2> HIDE DEF i, j
  <2>3. i # j /\ ~(Place(j) < Place(i))
    BY <1>7, <2>0, <2>1
  <2>4. GoesBefore(i, j)
    BY <2>1, <2>3, PlaceGrows, BeforeIsOrder
  <2>5. rules[i].priority \in Int /\ rules[j].priority \in Int
    BY <1>1, <2>1, RulesAssumption
  <2>6. At(rules, rules[i]) = i /\ At(rules, rules[j]) = j
    BY <2>1, AtIs DEF DecisionTypeOK, RulesOf
  <2> QED BY <2>2, <2>4, <2>5, <2>6 DEF GoesBefore, Comes
<1> QED BY <1>2, <1>4, <1>5, <1>6, <1>7 DEF InOrder

-----------------------------------------------------------------------------
(* The invariant: what has been asked and what is left are the rules as they *)
(* were, in their order                                                      *)

EvaluationPoints == {"predicate", "DECISION_FAILED", "DECISION_EVALUATED", "DECISION_CREATED"}

EvaluationFrames ==
    [call : {"evaluate"}, left : Seq(Rules), asked : Seq(Rules), matched : Seq(Rules),
     steady : SUBSET Rules, at : EvaluationPoints]

AsItWas(f, rs) ==
    /\ IsInjective(f.asked \o f.left)
    /\ InOrder(f.asked \o f.left, f.steady, rs)
    /\ InOrder(f.matched, f.steady, rs)
    /\ ToSet(f.matched) \subseteq ToSet(f.asked)
    /\ f.steady \subseteq ToSet(f.asked) \union ToSet(f.left)
    /\ f.steady \subseteq ToSet(rs)
    /\ f.at \in {"DECISION_EVALUATED", "DECISION_CREATED"} => f.left = << >>

Evaluating(s, rs) == s \in Seq(EvaluationFrames) /\ \A i \in DOMAIN s : AsItWas(s[i], rs)

DecisionInv == RulesOf(rules) /\ Evaluating(stack, rules)

LEMMA DecisionStart == DecisionInit => DecisionInv
<1>1. << >> \in Seq(Rules) /\ << >> \in Seq(EvaluationFrames) /\ DOMAIN << >> = {}
  OBVIOUS
<1> QED BY <1>1 DEF DecisionInit, DecisionInv, RulesOf, Evaluating

\* The rules change, and those that stay registered stay in their order.
LEMMA OrderStays ==
    ASSUME NEW f, NEW g, NEW old, NEW new, AsItWas(f, old),
           g.asked = f.asked, g.left = f.left, g.matched = f.matched, g.at = f.at,
           g.steady \subseteq f.steady, g.steady \subseteq ToSet(new),
           \A a, b \in g.steady : At(old, a) < At(old, b) => At(new, a) < At(new, b)
    PROVE  AsItWas(g, new)
<1>1. ASSUME NEW list, InOrder(list, f.steady, old) PROVE InOrder(list, g.steady, new)
  <2> SUFFICES ASSUME NEW i \in DOMAIN list, NEW j \in DOMAIN list, i < j
               PROVE  Comes(list[i], list[j], g.steady, new)
    BY DEF InOrder
  <2>1. Comes(list[i], list[j], f.steady, old)
    BY <1>1 DEF InOrder
  <2>2. ASSUME {list[i], list[j]} \subseteq g.steady, list[i].priority = list[j].priority
        PROVE  At(new, list[i]) < At(new, list[j])
    BY <2>1, <2>2 DEF Comes
  <2> QED BY <2>1, <2>2 DEF Comes
<1> QED BY <1>1 DEF AsItWas

LEMMA RegisterKeeps ==
    ASSUME DecisionInv, NEW rule \in Rules, RegisterRule(rule)
    PROVE  DecisionInv'
<1> DEFINE n == Len(rules)
           new == Append(rules, rule)
<1>1. /\ RulesOf(rules) /\ rules' = new /\ stack' = stack
      /\ \A i \in DOMAIN rules : rules[i].id # rule.id
  BY DEF DecisionInv, RegisterRule
<1>2. /\ n \in Nat /\ DOMAIN rules = 1 .. n /\ DOMAIN new = 1 .. n + 1
      /\ new \in Seq(Rules) /\ new[n + 1] = rule
      /\ \A i \in 1 .. n : new[i] = rules[i]
  BY <1>1 DEF RulesOf
<1> HIDE DEF new
<1>3. RulesOf(new)
  BY <1>1, <1>2 DEF RulesOf
<1>4. ASSUME NEW a \in ToSet(rules)
      PROVE  At(new, a) = At(rules, a) /\ a \in ToSet(new)
  <2>1. PICK i \in DOMAIN rules : rules[i] = a
    BY DEF ToSet
  <2>2. i \in DOMAIN new /\ new[i] = a
    BY <1>2, <2>1
  <2>3. At(rules, a) = i /\ At(new, a) = i
    BY <1>1, <1>3, <2>1, <2>2, AtIs
  <2> QED BY <2>2, <2>3 DEF ToSet
<1>5. ASSUME NEW i \in DOMAIN stack PROVE AsItWas(stack[i], new)
  <2>1. AsItWas(stack[i], rules) /\ stack[i].steady \subseteq ToSet(rules)
    BY DEF DecisionInv, Evaluating, AsItWas
  <2>2. /\ stack[i].steady \subseteq ToSet(new)
        /\ \A a, b \in stack[i].steady : At(rules, a) < At(rules, b) => At(new, a) < At(new, b)
    BY <1>4, <2>1
  <2> QED BY <2>1, <2>2, OrderStays
<1>6. Evaluating(stack, new)
  BY <1>5 DEF DecisionInv, Evaluating
<1> QED BY <1>1, <1>3, <1>6 DEF DecisionInv

LEMMA RemoveKeeps ==
    ASSUME DecisionInv, NEW rule \in Rules, RemoveRule(rule)
    PROVE  DecisionInv'
<1> DEFINE n == Len(rules)
           k == CHOOSE i \in DOMAIN rules : rules[i] = rule
           new == RemoveAt(rules, k)
           g(f) == [f EXCEPT !.steady = @ \ {rule}]
<1>1. /\ RulesOf(rules) /\ rules' = new /\ rule \in ToSet(rules)
      /\ stack' = [i \in DOMAIN stack |-> g(stack[i])]
  BY DEF DecisionInv, RemoveRule, Unregistered
<1>2. n \in Nat /\ DOMAIN rules = 1 .. n /\ rules \in Seq(Rules)
  BY <1>1 DEF RulesOf
<1>3. k \in 1 .. n /\ rules[k] = rule
  BY <1>1, <1>2 DEF ToSet
<1> HIDE DEF k
<1>4. /\ new \in Seq(Rules) /\ Len(new) = n - 1
      /\ \A j \in 1 .. n - 1 : new[j] = IF j < k THEN rules[j] ELSE rules[j + 1]
  BY <1>2, <1>3, RemoveAtOf
<1> HIDE DEF new
<1>5. DOMAIN new = 1 .. n - 1
  BY <1>4
<1>6. RulesOf(new)
  <2> DEFINE old(j) == IF j < k THEN j ELSE j + 1
  <2>1. ASSUME NEW i \in DOMAIN new, NEW j \in DOMAIN new, new[i].id = new[j].id PROVE i = j
    <3>1. old(i) \in 1 .. n /\ old(j) \in 1 .. n /\ (old(i) = old(j) => i = j)
      BY <1>2, <1>3, <1>5
    <3>2. new[i] = rules[old(i)] /\ new[j] = rules[old(j)]
      BY <1>4, <1>5
    <3> HIDE DEF old
    <3>3. old(i) = old(j)
      BY <1>1, <1>2, <2>1, <3>1, <3>2 DEF RulesOf
    <3> QED BY <3>1, <3>3
  <2> QED BY <1>4, <2>1 DEF RulesOf
<1>7. ASSUME NEW a \in ToSet(rules), a # rule
      PROVE  /\ a \in ToSet(new) /\ At(rules, a) \in 1 .. n /\ At(rules, a) # k
             /\ At(new, a) = IF At(rules, a) < k THEN At(rules, a) ELSE At(rules, a) - 1
  <2>1. PICK i \in DOMAIN rules : rules[i] = a
    BY DEF ToSet
  <2>2. At(rules, a) = i /\ i # k
    BY <1>1, <1>3, <1>7, <2>1, AtIs
  <2> DEFINE j == IF i < k THEN i ELSE i - 1
  <2>3. j \in 1 .. n - 1 /\ (IF j < k THEN j ELSE j + 1) = i
    BY <1>2, <1>3, <2>1, <2>2
  <2>4. j \in DOMAIN new /\ new[j] = a
    BY <1>4, <1>5, <2>1, <2>3
  <2> HIDE DEF j
  <2>5. At(new, a) = j
    BY <1>6, <2>4, AtIs
  <2>6. a \in ToSet(new)
    BY <2>4 DEF ToSet
  <2> QED BY <1>2, <2>1, <2>2, <2>5, <2>6 DEF j
<1>8. ASSUME NEW f \in EvaluationFrames, AsItWas(f, rules)
      PROVE  g(f) \in EvaluationFrames /\ AsItWas(g(f), new)
  <2>1. /\ g(f) \in EvaluationFrames /\ g(f).asked = f.asked /\ g(f).left = f.left
        /\ g(f).matched = f.matched /\ g(f).at = f.at /\ g(f).steady = f.steady \ {rule}
    BY DEF EvaluationFrames
  <2> HIDE DEF g
  <2>2. g(f).steady \subseteq f.steady /\ \A a \in g(f).steady : a \in ToSet(rules) /\ a # rule
    BY <1>8, <2>1 DEF AsItWas
  <2>3. g(f).steady \subseteq ToSet(new)
    BY <1>7, <2>2
  <2>4. ASSUME NEW a \in g(f).steady, NEW b \in g(f).steady, At(rules, a) < At(rules, b)
        PROVE  At(new, a) < At(new, b)
    <3> DEFINE p == At(rules, a)
               q == At(rules, b)
    <3>1. /\ p \in 1 .. n /\ q \in 1 .. n /\ p # k /\ q # k /\ p < q
          /\ At(new, a) = IF p < k THEN p ELSE p - 1
          /\ At(new, b) = IF q < k THEN q ELSE q - 1
      BY <1>7, <2>2, <2>4
    <3> HIDE DEF p, q, n
    <3>2. n \in Nat /\ k \in 1 .. n
      BY <1>2, <1>3 DEF n
    <3> QED BY <3>1, <3>2
  <2> QED BY <1>8, <2>1, <2>2, <2>3, <2>4, OrderStays
<1> HIDE DEF g
<1>9. stack \in Seq(EvaluationFrames) /\ \A i \in DOMAIN stack : AsItWas(stack[i], rules)
  BY DEF DecisionInv, Evaluating
<1>10. \A i \in DOMAIN stack : g(stack[i]) \in EvaluationFrames /\ AsItWas(g(stack[i]), new)
  BY <1>8, <1>9
<1>11. Evaluating(stack', new)
  <2>1. stack' \in Seq(EvaluationFrames) /\ DOMAIN stack' = DOMAIN stack
    BY <1>1, <1>9, <1>10
  <2> QED BY <1>1, <1>10, <2>1 DEF Evaluating
<1> QED BY <1>1, <1>6, <1>11 DEF DecisionInv

-----------------------------------------------------------------------------
(* Evaluations move                                                          *)

LEMMA EvaluatingTop ==
    ASSUME DecisionInv, Busy
    PROVE  /\ stack \in Seq(EvaluationFrames) /\ stack # << >>
           /\ Len(stack) \in DOMAIN stack /\ Top = stack[Len(stack)]
           /\ Top \in EvaluationFrames /\ AsItWas(Top, rules)
<1>1. stack \in Seq(EvaluationFrames) /\ stack # << >>
  BY DEF DecisionInv, Evaluating, Busy
<1>2. Len(stack) \in DOMAIN stack /\ Top = stack[Len(stack)]
  BY <1>1 DEF Top, Last
<1> QED BY <1>1, <1>2 DEF DecisionInv, Evaluating

LEMMA EvaluatingSet ==
    ASSUME NEW s, NEW rs, Evaluating(s, rs), NEW n \in DOMAIN s,
           NEW f \in EvaluationFrames, AsItWas(f, rs)
    PROVE  Evaluating([s EXCEPT ![n] = f], rs)
<1>1. [s EXCEPT ![n] = f] \in Seq(EvaluationFrames) /\ DOMAIN [s EXCEPT ![n] = f] = DOMAIN s
  BY DEF Evaluating
<1>2. \A i \in DOMAIN s : AsItWas([s EXCEPT ![n] = f][i], rs)
  BY DEF Evaluating
<1> QED BY <1>1, <1>2 DEF Evaluating

LEMMA EvaluatingPush ==
    ASSUME NEW s, NEW rs, Evaluating(s, rs), NEW f \in EvaluationFrames, AsItWas(f, rs)
    PROVE  Evaluating(Append(s, f), rs)
<1>1. s \in Seq(EvaluationFrames)
  BY DEF Evaluating
<1>2. /\ Append(s, f) \in Seq(EvaluationFrames)
      /\ DOMAIN Append(s, f) = 1 .. Len(s) + 1 /\ DOMAIN s = 1 .. Len(s) /\ Len(s) \in Nat
      /\ \A i \in 1 .. Len(s) : Append(s, f)[i] = s[i]
      /\ Append(s, f)[Len(s) + 1] = f
  BY <1>1
<1>3. ASSUME NEW i \in 1 .. Len(s) + 1 PROVE AsItWas(Append(s, f)[i], rs)
  <2>1. CASE i \in 1 .. Len(s)
    BY <1>2, <2>1 DEF Evaluating
  <2>2. CASE i \notin 1 .. Len(s)
    <3>1. i = Len(s) + 1
      BY <1>2, <2>2
    <3> QED BY <1>2, <3>1
  <2> QED BY <2>1, <2>2
<1> QED BY <1>2, <1>3 DEF Evaluating

\* The innermost evaluation goes to another point, or is over.
LEMMA PointKeeps ==
    ASSUME DecisionInv, Busy, NEW point \in EvaluationPoints,
           point \in {"DECISION_EVALUATED", "DECISION_CREATED"} => Top.left = << >>
    PROVE  Evaluating([stack EXCEPT ![Len(stack)].at = point], rules)
<1> DEFINE n == Len(stack)
           f == [Top EXCEPT !.at = point]
<1>1. /\ stack \in Seq(EvaluationFrames) /\ n \in DOMAIN stack /\ Top = stack[n]
      /\ Top \in EvaluationFrames /\ AsItWas(Top, rules)
  BY EvaluatingTop
<1>2. /\ f \in EvaluationFrames /\ f.asked = Top.asked /\ f.left = Top.left
      /\ f.matched = Top.matched /\ f.steady = Top.steady /\ f.at = point
  BY <1>1 DEF EvaluationFrames
<1>3. [stack EXCEPT ![n].at = point] = [stack EXCEPT ![n] = f]
  BY <1>1
<1> HIDE DEF f
<1>4. AsItWas(f, rules)
  BY <1>1, <1>2 DEF AsItWas
<1> HIDE DEF n
<1>5. Evaluating([stack EXCEPT ![n] = f], rules)
  BY <1>1, <1>2, <1>4, EvaluatingSet DEF DecisionInv
<1> QED BY <1>3, <1>5 DEF n

LEMMA ReturnKeeps ==
    ASSUME DecisionInv, Busy, Return \/ Unwind
    PROVE  Evaluating(stack', rules)
<1> DEFINE below == Front(stack)
<1>1. stack \in Seq(EvaluationFrames) /\ stack # << >>
  BY EvaluatingTop
<1>2. /\ below \in Seq(EvaluationFrames) /\ DOMAIN below = 1 .. Len(stack) - 1
      /\ DOMAIN stack = 1 .. Len(stack) /\ Len(stack) \in Nat \ {0}
      /\ \A i \in 1 .. Len(stack) - 1 : below[i] = stack[i]
  BY <1>1, FrontOf
<1> HIDE DEF below
<1>3. Evaluating(below, rules)
  BY <1>2 DEF DecisionInv, Evaluating
<1>4. \A i \in DOMAIN below : below[i].at # "calling"
  <2>1. \A i \in DOMAIN below : below[i] \in EvaluationFrames
    BY <1>2
  <2>2. \A f \in EvaluationFrames : f.at # "calling"
    BY DEF EvaluationFrames, EvaluationPoints
  <2> QED BY <2>1, <2>2
<1>5. below # << >> => Len(below) \in DOMAIN below
  BY <1>2
<1>6. stack' = below
  BY <1>4, <1>5 DEF Return, Unwind, Unwound, Last, below
<1> QED BY <1>3, <1>6

LEMMA BeginKeeps ==
    ASSUME DecisionInv, Begin
    PROVE  DecisionInv'
<1> DEFINE f == [call |-> "evaluate", left |-> ListRules, asked |-> << >>, matched |-> << >>,
                 steady |-> ToSet(rules), at |-> "predicate"]
<1>1. stack' = Append(stack, f) /\ rules' = rules
  BY DEF Begin, Enter, Opened
<1>2. /\ ListRules \in Seq(Rules) /\ IsInjective(ListRules)
      /\ ToSet(ListRules) = ToSet(rules)
      /\ \A kept : InOrder(ListRules, kept, rules)
  BY ListRulesIsOrder DEF DecisionInv, DecisionTypeOK, RulesOf
<1>3. ToSet(rules) \subseteq Rules
  BY DEF ToSet, DecisionInv, RulesOf
<1>4. f \in EvaluationFrames
  BY <1>2, <1>3 DEF EvaluationFrames, EvaluationPoints
<1>5. << >> \o ListRules = ListRules /\ ToSet(<< >>) = {} /\ DOMAIN << >> = {}
  BY <1>2, ConcatEmptySeq DEF ToSet
<1>6. \A kept : InOrder(<< >>, kept, rules)
  BY <1>5 DEF InOrder
<1>7. /\ f.left = ListRules /\ f.asked = << >> /\ f.matched = << >> /\ f.steady = ToSet(rules)
      /\ f.at = "predicate"
  OBVIOUS
<1> HIDE DEF f
<1>8. AsItWas(f, rules)
  BY <1>2, <1>5, <1>6, <1>7 DEF AsItWas
<1>9. Evaluating(Append(stack, f), rules)
  BY <1>4, <1>8, EvaluatingPush DEF DecisionInv
<1> QED BY <1>1, <1>9 DEF DecisionInv

\* A rule that matches comes after all that matched: they have been asked before it.
LEMMA AnswerKeeps ==
    ASSUME DecisionInv, NEW yes \in BOOLEAN, PredicateAnswers(yes)
    PROVE  DecisionInv'
<1> DEFINE n == Len(stack)
           left == Top.left
           asked == Top.asked
           matched == Top.matched
           f == [Top EXCEPT !.left = Tail(left), !.asked = Append(asked, Rule),
                            !.matched = IF yes THEN Append(matched, Rule) ELSE matched]
<1>1. Busy /\ Top.at = "predicate" /\ left # << >> /\ rules' = rules
  BY DEF PredicateAnswers, Asking, TopIs
<1>2. /\ stack \in Seq(EvaluationFrames) /\ n \in DOMAIN stack /\ Top = stack[n]
      /\ Top \in EvaluationFrames /\ AsItWas(Top, rules)
  BY <1>1, EvaluatingTop
<1>3. stack' = [stack EXCEPT ![n] = f]
  BY <1>2 DEF PredicateAnswers
<1>4. left \in Seq(Rules) /\ asked \in Seq(Rules) /\ matched \in Seq(Rules) /\ Rule = Head(left)
  BY <1>2 DEF EvaluationFrames, Rule
<1> DEFINE one == Append(asked, Rule)
           two == Tail(left)
           three == IF yes THEN Append(matched, Rule) ELSE matched
           kept == Top.steady
<1> HIDE DEF left, asked, matched
<1>5. /\ one \in Seq(Rules) /\ two \in Seq(Rules) /\ one \o two = asked \o left
      /\ ToSet(one) \union ToSet(two) = ToSet(asked) \union ToSet(left)
  BY <1>1, <1>4, MovedOn
<1>6. Rule \in Rules
  BY <1>1, <1>4
<1>7. three \in Seq(Rules)
  BY <1>4, <1>6
<1>8. /\ f \in EvaluationFrames /\ f.left = two /\ f.asked = one /\ f.matched = three
      /\ f.steady = kept /\ f.at = "predicate"
  BY <1>1, <1>2, <1>5, <1>7 DEF EvaluationFrames
<1>9. /\ IsInjective(asked \o left) /\ InOrder(asked \o left, kept, rules)
      /\ InOrder(matched, kept, rules) /\ ToSet(matched) \subseteq ToSet(asked)
      /\ kept \subseteq ToSet(asked) \union ToSet(left) /\ kept \subseteq ToSet(rules)
  BY <1>2 DEF AsItWas, left, asked, matched
<1>10. ToSet(one) = ToSet(asked) \union {Rule}
  <2>1. /\ DOMAIN one = 1 .. Len(asked) + 1 /\ DOMAIN asked = 1 .. Len(asked) /\ Len(asked) \in Nat
        /\ one[Len(asked) + 1] = Rule /\ \A i \in 1 .. Len(asked) : one[i] = asked[i]
    BY <1>4, <1>6
  <2> HIDE DEF one
  <2> QED BY <2>1 DEF ToSet
<1> HIDE DEF f, one, two, kept
<1>11. CASE ~yes
  <2>1. three = matched
    BY <1>11
  <2>2. AsItWas(f, rules)
    BY <1>5, <1>8, <1>9, <1>10, <2>1 DEF AsItWas
  <2> QED BY <1>1, <1>2, <1>3, <1>8, <2>2, EvaluatingSet DEF DecisionInv
<1>12. CASE yes
  <2> DEFINE m == Len(matched)
  <2>1. /\ three = Append(matched, Rule) /\ m \in Nat /\ DOMAIN matched = 1 .. m
        /\ DOMAIN three = 1 .. m + 1 /\ three[m + 1] = Rule
        /\ \A i \in 1 .. m : three[i] = matched[i]
    BY <1>4, <1>6, <1>12
  <2> HIDE DEF three
  <2>2. ASSUME NEW i \in 1 .. m PROVE Comes(matched[i], Rule, kept, rules)
    <3>1. matched[i] \in ToSet(asked)
      BY <1>9, <2>1 DEF ToSet
    <3>2. PICK p \in DOMAIN asked : asked[p] = matched[i]
      BY <3>1 DEF ToSet
    <3> DEFINE q == Len(asked) + 1
    <3>3. /\ p \in 1 .. Len(asked) /\ Len(asked) \in Nat /\ Len(left) \in Nat \ {0}
          /\ left[1] = Rule
      BY <1>1, <1>4
    <3>4. /\ p \in DOMAIN (asked \o left) /\ q \in DOMAIN (asked \o left) /\ p < q
          /\ (asked \o left)[p] = asked[p]
      BY <1>4, <3>3
    <3>5. (asked \o left)[q] = Rule
      <4>1. (asked \o left)[q] = left[q - Len(asked)] /\ q - Len(asked) = 1
        BY <1>4, <3>3
      <4> QED BY <3>3, <4>1
    <3> HIDE DEF q
    <3>6. Comes((asked \o left)[p], (asked \o left)[q], kept, rules)
      BY <1>9, <3>4 DEF InOrder
    <3> QED BY <3>2, <3>4, <3>5, <3>6
  <2>3. InOrder(three, kept, rules)
    <3> SUFFICES ASSUME NEW i \in 1 .. m + 1, NEW j \in 1 .. m + 1, i < j
                 PROVE  Comes(three[i], three[j], kept, rules)
      BY <2>1 DEF InOrder
    <3>1. i \in 1 .. m /\ (j \in 1 .. m \/ j = m + 1)
      BY <2>1
    <3>2. CASE j \in 1 .. m
      BY <1>9, <2>1, <3>1, <3>2 DEF InOrder
    <3>3. CASE j = m + 1
      BY <2>1, <2>2, <3>1, <3>3
    <3> QED BY <3>1, <3>2, <3>3
  <2>4. ToSet(three) \subseteq ToSet(one)
    <3>1. ASSUME NEW i \in 1 .. m + 1 PROVE three[i] \in ToSet(matched) \union {Rule}
      <4>1. i \in 1 .. m \/ i = m + 1
        BY <2>1
      <4> QED BY <2>1, <4>1 DEF ToSet
    <3>2. ToSet(three) \subseteq ToSet(matched) \union {Rule}
      BY <2>1, <3>1 DEF ToSet
    <3> QED BY <1>9, <1>10, <3>2
  <2>5. AsItWas(f, rules)
    BY <1>5, <1>8, <1>9, <2>3, <2>4 DEF AsItWas
  <2> QED BY <1>1, <1>2, <1>3, <1>8, <2>5, EvaluatingSet DEF DecisionInv
<1> QED BY <1>11, <1>12

LEMMA DecisionStep ==
    ASSUME DecisionInv, DecisionNext
    PROVE  DecisionInv'
<1>1. ASSUME NEW rule \in Rules, RegisterRule(rule) \/ RemoveRule(rule) PROVE DecisionInv'
  BY <1>1, RegisterKeeps, RemoveKeeps
<1>2. CASE PredicateRaises
  <2>1. Busy /\ rules' = rules /\ stack' = [stack EXCEPT ![Len(stack)].at = "DECISION_FAILED"]
    BY <1>2 DEF PredicateRaises, Asking, TopIs, Goto
  <2>2. Evaluating([stack EXCEPT ![Len(stack)].at = "DECISION_FAILED"], rules)
    BY <2>1, PointKeeps DEF EvaluationPoints
  <2> QED BY <2>1, <2>2 DEF DecisionInv
<1>3. CASE AllAsked
  <2>1. Busy /\ rules' = rules
    BY <1>3 DEF AllAsked, TopIs
  <2>2. PICK point \in {"DECISION_EVALUATED", "DECISION_CREATED"} :
            stack' = [stack EXCEPT ![Len(stack)].at = point] /\ Top.left = << >>
    <3>1. Top.at = "DECISION_EVALUATED" => Top.left = << >>
      BY <2>1, EvaluatingTop DEF AsItWas
    <3> QED BY <1>3, <3>1 DEF AllAsked, TopIs, Goto
  <2>3. Evaluating([stack EXCEPT ![Len(stack)].at = point], rules)
    BY <2>1, <2>2, PointKeeps DEF EvaluationPoints
  <2> QED BY <2>1, <2>2, <2>3 DEF DecisionInv
<1>4. CASE EvaluationReturns
  <2>1. Busy /\ (Return \/ Unwind) /\ rules' = rules
    BY <1>4 DEF EvaluationReturns, TopIs
  <2> QED BY <2>1, ReturnKeeps DEF DecisionInv
<1> QED BY <1>1, <1>2, <1>3, <1>4, BeginKeeps, AnswerKeeps DEF DecisionNext

LEMMA DecisionProperties == DecisionInv => DecisionTypeOK /\ EveryRuleAsked /\ MatchedInOrder
<1> SUFFICES ASSUME DecisionInv PROVE DecisionTypeOK /\ EveryRuleAsked /\ MatchedInOrder
  OBVIOUS
<1>1. DecisionTypeOK
  BY DEF DecisionInv, RulesOf, DecisionTypeOK
<1>2. \A frame \in Evaluations : frame \in EvaluationFrames /\ AsItWas(frame, rules)
  BY DEF DecisionInv, Evaluating, Evaluations, ToSet
<1>3. EveryRuleAsked
  <2> SUFFICES ASSUME NEW frame \in Evaluations,
                      frame.at \in {"DECISION_EVALUATED", "DECISION_CREATED"}
               PROVE  frame.steady \subseteq ToSet(frame.asked) /\ IsInjective(frame.asked)
    BY DEF EveryRuleAsked
  <2>1. frame.left = << >> /\ frame.asked \in Seq(Rules)
    BY <1>2 DEF AsItWas, EvaluationFrames
  <2>2. frame.asked \o << >> = frame.asked /\ ToSet(<< >>) = {}
    BY <2>1, ConcatEmptySeq DEF ToSet
  <2> QED BY <1>2, <2>1, <2>2 DEF AsItWas
<1>4. MatchedInOrder
  <2> SUFFICES ASSUME NEW frame \in Evaluations, NEW i \in DOMAIN frame.matched,
                      NEW j \in DOMAIN frame.matched, i < j
               PROVE  LET first == frame.matched[i]  second == frame.matched[j] IN
                      /\ first.priority <= second.priority
                      /\ first.priority = second.priority /\ {first, second} \subseteq frame.steady
                             => RegisteredAt(first) < RegisteredAt(second)
    BY DEF MatchedInOrder
  <2>1. Comes(frame.matched[i], frame.matched[j], frame.steady, rules)
    BY <1>2 DEF AsItWas, InOrder
  <2>2. \A rule : RegisteredAt(rule) = At(rules, rule)
    BY DEF RegisteredAt, At
  <2> QED BY <2>1, <2>2 DEF Comes
<1> QED BY <1>1, <1>3, <1>4

\* An evaluation announces decision events.
LEMMA DecisionAnnounces == DecisionInv => OwnEvents(stack)
<1> SUFFICES ASSUME DecisionInv, NEW i \in DOMAIN stack, stack[i].at \in EventType
             PROVE  stack[i].at \in Announces[stack[i].call]
  BY EveryTypeIsOnes DEF OwnEvents
<1>1. stack[i].call = "evaluate" /\ stack[i].at \in EvaluationPoints
  <2>1. stack[i] \in EvaluationFrames
    BY DEF DecisionInv, Evaluating
  <2> QED BY <2>1 DEF EvaluationFrames
<1>2. Announces["evaluate"] = DecisionEvents
  BY DEF Announces
<1>3. "predicate" \notin EventType
  <2>1. \A types \in Published : "predicate" \notin types
    BY DEF Published, KnowledgeEvents, MemoryEvents, SchedulerEvents, TickEvents,
           IntentEvents, WorkflowEvents, ConversationEvents, DispatcherEvents, CapabilityEvents,
           PluginEvents, PlannerEvents, RuntimeEvents, ConnectorEvents, GraphEvents,
           IntegrationEvents, ReasoningEvents, DecisionEvents, SalesEvents
  <2>2. "predicate" \notin Unused
    BY DEF Unused
  <2> QED BY <2>1, <2>2 DEF EventType
<1> QED BY <1>1, <1>2, <1>3 DEF EvaluationPoints, DecisionEvents

\* A decision is one of the rules as they were when the evaluation began, in their order,
\* whatever predicates and handlers do to the rules (DecisionEngine.evaluate_all).
THEOREM DecisionsStaySound == DecisionSpec => []DecisionsAreSound
<1>1. DecisionInv /\ [DecisionNext]_decisionVars => DecisionInv'
  <2>1. DecisionInv /\ UNCHANGED decisionVars => DecisionInv'
    BY DEF decisionVars, DecisionInv
  <2> QED BY <2>1, DecisionStep
<1>2. DecisionInv => DecisionsAreSound
  BY DecisionProperties, DecisionAnnounces DEF DecisionsAreSound
<1> QED BY <1>1, <1>2, DecisionStart, PTL DEF DecisionSpec

-----------------------------------------------------------------------------
(* The program: three lists of names that are kept by hand agree.            *)

Names(n) == {Order[i].name : i \in 1 .. n}
CoreNames(n) == {CoreServices[i] : i \in 1 .. n}
OwnStates == {"CREATED", "INITIALIZING", "RUNNING", "STOPPED"}

\* The core services so far, of which each has been put in both places once.
CoreSoFar ==
    \E n \in 0 .. Len(CoreServices) :
        IsFiniteSet(services) /\ Cardinality(services) = n /\ services = CoreNames(n)

Constructed ==
    /\ container = Names(built)
    /\ DOMAIN own \subseteq container
    /\ DOMAIN recorded = services
    /\ services # {} => built = Len(Order)
    /\ CoreSoFar
    /\ ~running

BootInv ==
    /\ phase \in {"constructing", "loading", "loaded", "failing", "ended", "aborted"}
    /\ built \in 0 .. Len(Order)
    /\ recorded \in [DOMAIN recorded -> LifecycleStates]
    /\ own \in [DOMAIN own -> OwnStates] /\ DOMAIN own \subseteq Managed
    /\ phase = "constructing" => Constructed

Constructible == ToSet(Foundation) \union ToSet(Cognition) \union ToSet(Chain)

\* Each part of the order needs nothing but what the parts before it have, or itself
\* before the place.
LEMMA FoundationNeeds ==
    /\ Foundation \in Seq(Constructible) /\ Len(Foundation) = 11
    /\ \A i \in 1 .. 11 : Foundation[i].needs \subseteq {Foundation[j].name : j \in 1 .. i - 1}
<1>1. Len(Foundation) = 11 /\ DOMAIN Foundation = 1 .. 11
  BY DEF Foundation, Service
<1>a. Foundation \in Seq(Constructible)
  <2>1. \A i \in 1 .. 11 : Foundation[i] \in Constructible
    BY <1>1 DEF Constructible, ToSet
  <2> QED BY <2>1 DEF Foundation
<1>2. ASSUME NEW i \in 1 .. 11
      PROVE  Foundation[i].needs \subseteq {Foundation[j].name : j \in 1 .. i - 1}
  BY DEF Foundation, Service
<1> QED BY <1>1, <1>a, <1>2

LEMMA CognitionNeeds ==
    /\ Cognition \in Seq(Constructible) /\ Len(Cognition) = 9
    /\ \A i \in 1 .. 9 : Cognition[i].needs \subseteq
           {Foundation[j].name : j \in 1 .. 11} \union {Cognition[j].name : j \in 1 .. i - 1}
<1>1. Len(Cognition) = 9 /\ DOMAIN Cognition = 1 .. 9
  BY DEF Cognition, Service
<1>a. Cognition \in Seq(Constructible)
  <2>1. \A i \in 1 .. 9 : Cognition[i] \in Constructible
    BY <1>1 DEF Constructible, ToSet
  <2> QED BY <2>1 DEF Cognition
<1>2. {"event_bus", "workflow_engine", "memory_service"} \subseteq {Foundation[j].name : j \in 1 .. 11}
  BY DEF Foundation, Service
<1>3. ASSUME NEW i \in 1 .. 9
      PROVE  Cognition[i].needs \subseteq {"event_bus", "workflow_engine", "memory_service"}
                  \union {Cognition[j].name : j \in 1 .. i - 1}
  BY DEF Cognition, Service
<1> QED BY <1>1, <1>a, <1>2, <1>3

LEMMA ChainNeeds ==
    /\ Chain \in Seq(Constructible) /\ Len(Chain) = 6
    /\ \A i \in 1 .. 6 : Chain[i].needs \subseteq
           {Foundation[j].name : j \in 1 .. 11} \union {Cognition[j].name : j \in 1 .. 9}
               \union {Chain[j].name : j \in 1 .. i - 1}
<1>1. Len(Chain) = 6 /\ DOMAIN Chain = 1 .. 6
  BY DEF Chain, Service
<1>a. Chain \in Seq(Constructible)
  <2>1. \A i \in 1 .. 6 : Chain[i] \in Constructible
    BY <1>1 DEF Constructible, ToSet
  <2> QED BY <2>1 DEF Chain
<1>2. "event_bus" \in {Foundation[j].name : j \in 1 .. 11}
  BY DEF Foundation, Service
<1>3. {"planner", "capability_registry"} \subseteq {Cognition[j].name : j \in 1 .. 9}
  BY DEF Cognition, Service
<1>4. ASSUME NEW i \in 1 .. 6
      PROVE  Chain[i].needs \subseteq {"event_bus", "planner", "capability_registry"}
                  \union {Chain[j].name : j \in 1 .. i - 1}
  BY DEF Chain, Service
<1> QED BY <1>1, <1>a, <1>2, <1>3, <1>4

LEMMA JoinedAt ==
    ASSUME NEW S, NEW s \in Seq(S), NEW t \in Seq(S)
    PROVE  /\ s \o t \in Seq(S) /\ Len(s \o t) = Len(s) + Len(t)
           /\ \A i \in 1 .. Len(s) : (s \o t)[i] = s[i]
           /\ \A i \in 1 .. Len(t) : (s \o t)[Len(s) + i] = t[i]
<1>1. s \o t \in Seq(S) /\ Len(s \o t) = Len(s) + Len(t)
  OBVIOUS
<1>2. \A i \in 1 .. Len(s) : (s \o t)[i] = s[i]
  OBVIOUS
<1>3. ASSUME NEW i \in 1 .. Len(t) PROVE (s \o t)[Len(s) + i] = t[i]
  <2>1. Len(s) + i \in 1 .. Len(s) + Len(t) /\ ~(Len(s) + i <= Len(s)) /\ (Len(s) + i) - Len(s) = i
    OBVIOUS
  <2> QED BY <2>1
<1> QED BY <1>1, <1>2, <1>3

\* What stands where in the whole order.
LEMMA OrderParts ==
    /\ Len(Order) = 26
    /\ \A i \in 1 .. 11 : Order[i] = Foundation[i]
    /\ \A i \in 1 .. 9 : Order[11 + i] = Cognition[i]
    /\ \A i \in 1 .. 6 : Order[20 + i] = Chain[i]
<1> DEFINE both == Foundation \o Cognition
<1>1. /\ Foundation \in Seq(Constructible) /\ Len(Foundation) = 11
      /\ Cognition \in Seq(Constructible) /\ Len(Cognition) = 9
      /\ Chain \in Seq(Constructible) /\ Len(Chain) = 6
  BY FoundationNeeds, CognitionNeeds, ChainNeeds
<1>2. Foundation \in Seq(Constructible) /\ Cognition \in Seq(Constructible)
  BY <1>1
<1>3. both \in Seq(Constructible) /\ Len(both) = Len(Foundation) + Len(Cognition)
  BY <1>2, JoinedAt
<1>4. \A i \in 1 .. Len(Foundation) : both[i] = Foundation[i]
  BY <1>2, JoinedAt, Zenon
<1>5. \A i \in 1 .. Len(Cognition) : both[Len(Foundation) + i] = Cognition[i]
  BY <1>2, JoinedAt
<1>6. Order = both \o Chain
  BY DEF Order
<1> HIDE DEF both
<1>7. both \in Seq(Constructible) /\ Chain \in Seq(Constructible)
  BY <1>1, <1>3
<1>8. Len(Order) = Len(both) + Len(Chain)
  BY <1>6, <1>7, JoinedAt
<1>9. \A i \in 1 .. Len(both) : Order[i] = both[i]
  BY <1>6, <1>7, JoinedAt, Zenon
<1>10. \A i \in 1 .. Len(Chain) : Order[Len(both) + i] = Chain[i]
  BY <1>6, <1>7, JoinedAt
<1>11. Len(both) = 20
  BY <1>1, <1>3
<1>12. (\A i \in 1 .. 9 : 11 + i \in 1 .. 20) /\ (\A i \in 1 .. 11 : i \in 1 .. 20) /\ 20 + 6 = 26
  OBVIOUS
<1>13. \A i \in 1 .. 11 : Order[i] = Foundation[i]
  BY <1>1, <1>4, <1>9, <1>11, <1>12
<1>14. ASSUME NEW i \in 1 .. 9 PROVE Order[11 + i] = Cognition[i]
  <2>1. 11 + i \in 1 .. 20
    BY <1>12
  <2>2. Order[11 + i] = both[11 + i]
    BY <1>9, <1>11, <2>1
  <2>3. both[11 + i] = Cognition[i]
    BY <1>1, <1>5
  <2> QED BY <2>2, <2>3
<1>15. \A i \in 1 .. 6 : Order[20 + i] = Chain[i]
  BY <1>1, <1>10, <1>11
<1> QED BY <1>1, <1>8, <1>11, <1>12, <1>13, <1>14, <1>15

LEMMA OrderIsBuildable ==
    \A i \in 1 .. 26 : Order[i].needs \subseteq {Order[j].name : j \in 1 .. i - 1}
<1> SUFFICES ASSUME NEW i \in 1 .. 26
             PROVE  Order[i].needs \subseteq {Order[j].name : j \in 1 .. i - 1}
  OBVIOUS
<1> DEFINE before == {Order[j].name : j \in 1 .. i - 1}
<1>1. CASE i \in 1 .. 11
  <2>1. \A j \in 1 .. i - 1 : j \in 1 .. 11
    BY <1>1
  <2>2. {Foundation[j].name : j \in 1 .. i - 1} \subseteq before
    BY <2>1, OrderParts
  <2> QED BY <1>1, <2>2, OrderParts, FoundationNeeds
<1>2. ASSUME i \notin 1 .. 11 PROVE {Foundation[j].name : j \in 1 .. 11} \subseteq before
  <2>1. \A j \in 1 .. 11 : j \in 1 .. i - 1
    BY <1>2
  <2> QED BY <2>1, OrderParts
<1>3. CASE i \in 12 .. 20
  <2>1. PICK k \in 1 .. 9 : i = 11 + k
    <3>1. i - 11 \in 1 .. 9 /\ i = 11 + (i - 11)
      BY <1>3
    <3> QED BY <3>1
  <2>2. \A j \in 1 .. k - 1 : j \in 1 .. 9 /\ 11 + j \in 1 .. i - 1
    BY <2>1
  <2>3. {Cognition[j].name : j \in 1 .. k - 1} \subseteq before
    <3>1. \A j \in 1 .. k - 1 : Order[11 + j] = Cognition[j]
      BY <2>2, OrderParts
    <3> QED BY <2>2, <3>1
  <2>4. Order[i] = Cognition[k]
    BY <2>1, OrderParts
  <2>5. i \notin 1 .. 11
    BY <1>3
  <2>6. Order[i].needs \subseteq
            {Foundation[j].name : j \in 1 .. 11} \union {Cognition[j].name : j \in 1 .. k - 1}
    BY <2>4, CognitionNeeds
  <2> DEFINE F == {Foundation[j].name : j \in 1 .. 11}
             G == {Cognition[j].name : j \in 1 .. k - 1}
  <2>7. F \subseteq before /\ G \subseteq before /\ Order[i].needs \subseteq F \union G
    BY <1>2, <2>3, <2>5, <2>6
  <2>8. Order[i].needs \subseteq before
    <3> HIDE DEF before, F, G
    <3> QED BY <2>7
  <2> QED BY <2>8
<1>4. CASE i \in 21 .. 26
  <2>1. PICK k \in 1 .. 6 : i = 20 + k
    <3>1. i - 20 \in 1 .. 6 /\ i = 20 + (i - 20)
      BY <1>4
    <3> QED BY <3>1
  <2>2. \A j \in 1 .. k - 1 : j \in 1 .. 6 /\ 20 + j \in 1 .. i - 1
    BY <2>1
  <2>3. {Chain[j].name : j \in 1 .. k - 1} \subseteq before
    <3>1. \A j \in 1 .. k - 1 : Order[20 + j] = Chain[j]
      BY <2>2, OrderParts
    <3> QED BY <2>2, <3>1
  <2>4. {Cognition[j].name : j \in 1 .. 9} \subseteq before
    <3>1. \A j \in 1 .. 9 : 11 + j \in 1 .. i - 1
      BY <1>4
    <3> QED BY <3>1, OrderParts
  <2>5. Order[i] = Chain[k]
    BY <2>1, OrderParts
  <2>6. i \notin 1 .. 11
    BY <1>4
  <2>7. Order[i].needs \subseteq
            {Foundation[j].name : j \in 1 .. 11} \union {Cognition[j].name : j \in 1 .. 9}
                \union {Chain[j].name : j \in 1 .. k - 1}
    BY <2>5, ChainNeeds
  <2> DEFINE F == {Foundation[j].name : j \in 1 .. 11}
             G == {Cognition[j].name : j \in 1 .. 9}
             H == {Chain[j].name : j \in 1 .. k - 1}
  <2>8. /\ F \subseteq before /\ G \subseteq before /\ H \subseteq before
        /\ Order[i].needs \subseteq F \union G \union H
    BY <1>2, <2>3, <2>4, <2>6, <2>7
  <2>9. Order[i].needs \subseteq before
    <3> HIDE DEF before, F, G, H
    <3> QED BY <2>8
  <2> QED BY <2>9
<1> QED BY <1>1, <1>3, <1>4

\* The tuple of _register_core_services names what bootstrap() has constructed.
LEMMA ListsAgree == Len(CoreServices) = 26 /\ Names(26) = CoreNames(26)
<1>1. Len(CoreServices) = 26
  BY DEF CoreServices
<1> DEFINE F == {Foundation[j].name : j \in 1 .. 11}
           G == {Cognition[j].name : j \in 1 .. 9}
           H == {Chain[j].name : j \in 1 .. 6}
<1>2. Names(26) = F \union G \union H
  <2>1. \A i \in 1 .. 26 : i \in 1 .. 11 \/ (i - 11 \in 1 .. 9 /\ i = 11 + (i - 11))
                                \/ (i - 20 \in 1 .. 6 /\ i = 20 + (i - 20))
    OBVIOUS
  <2>2. ASSUME NEW i \in 1 .. 26 PROVE Order[i].name \in F \union G \union H
    <3>1. CASE i \in 1 .. 11
      BY <3>1, OrderParts
    <3>2. CASE i - 11 \in 1 .. 9 /\ i = 11 + (i - 11)
      <4>1. Order[i] = Cognition[i - 11]
        BY <3>2, OrderParts
      <4> QED BY <3>2, <4>1
    <3>3. CASE i - 20 \in 1 .. 6 /\ i = 20 + (i - 20)
      <4>1. Order[i] = Chain[i - 20]
        BY <3>3, OrderParts
      <4> QED BY <3>3, <4>1
    <3> HIDE DEF F, G, H
    <3> QED BY <2>1, <3>1, <3>2, <3>3
  <2>3. \A j \in 1 .. 11 : j \in 1 .. 26
    OBVIOUS
  <2>4. \A j \in 1 .. 9 : 11 + j \in 1 .. 26
    OBVIOUS
  <2>5. \A j \in 1 .. 6 : 20 + j \in 1 .. 26
    OBVIOUS
  <2>6. F \subseteq Names(26)
    BY <2>3, OrderParts DEF Names
  <2>7. G \subseteq Names(26)
    BY <2>4, OrderParts DEF Names
  <2>8. H \subseteq Names(26)
    BY <2>5, OrderParts DEF Names
  <2>9. Names(26) \subseteq F \union G \union H
    BY <2>2 DEF Names
  <2> HIDE DEF F, G, H
  <2> QED BY <2>6, <2>7, <2>8, <2>9
<1> DEFINE X == {"configuration", "logger", "event_bus", "service_registry", "lifecycle_manager",
                 "knowledge_service", "memory_service", "scheduler", "intent_router",
                 "workflow_engine", "conversation_manager"}
           Y == {"capability_registry", "plugin_manager", "intent_dispatcher", "planner",
                 "knowledge_graph", "memory_integration", "reasoning_engine", "decision_engine",
                 "agent_runtime"}
           Z == {"connector_manager", "cognitive_pipeline", "capability_executor",
                 "execution_engine", "response_engine", "agent_service"}
<1>3. F = X
  BY DEF Foundation, Service
<1>4. G = Y
  BY DEF Cognition, Service
<1>5. H = Z
  BY DEF Chain, Service
<1>6. CoreNames(26) = X \union Y \union Z
  BY DEF CoreNames, CoreServices
<1> HIDE DEF F, G, H, X, Y, Z
<1> QED BY <1>1, <1>2, <1>3, <1>4, <1>5, <1>6

-----------------------------------------------------------------------------
(* The steps                                                                 *)

LEMMA NextName ==
    ASSUME NEW n \in Nat
    PROVE  /\ Names(n + 1) = Names(n) \union {Order[n + 1].name}
           /\ CoreNames(n + 1) = CoreNames(n) \union {CoreServices[n + 1]}
<1>1. 1 .. n + 1 = 1 .. n \union {n + 1}
  OBVIOUS
<1> QED BY <1>1 DEF Names, CoreNames

LEMMA BootStart == BootInit => BootInv
<1> SUFFICES ASSUME BootInit PROVE BootInv
  OBVIOUS
<1>1. /\ phase = "constructing" /\ built = 0 /\ container = {} /\ services = {} /\ ~running
      /\ recorded = << >> /\ own = << >>
  BY DEF BootInit
<1>2. DOMAIN << >> = {} /\ \A S : << >> \in [{} -> S]
  OBVIOUS
<1>3. Names(0) = {} /\ CoreNames(0) = {}
  BY DEF Names, CoreNames
<1>4. 0 \in 0 .. Len(Order) /\ 0 \in 0 .. Len(CoreServices)
  BY OrderParts, ListsAgree
<1>5. CoreSoFar
  BY <1>1, <1>3, <1>4, FS_EmptySet DEF CoreSoFar
<1> QED BY <1>1, <1>2, <1>3, <1>4, <1>5 DEF BootInv, Constructed

LEMMA ConstructKeeps ==
    ASSUME BootInv, Construct
    PROVE  /\ BootInv' /\ recorded' = recorded /\ ~running'
           /\ \A s \in DOMAIN own : own'[s] = own[s]
<1> DEFINE name == Order[built + 1].name
<1>1. /\ phase = "constructing" /\ phase' = phase /\ built \in 0 .. Len(Order) /\ built < Len(Order)
      /\ name \notin container /\ container' = container \union {name}
      /\ built' = built + 1 /\ services' = services /\ recorded' = recorded /\ running' = running
      /\ Constructed
  BY DEF Construct, Register, BootInv
<1>2. own' = IF name \in Managed THEN Noted(own, name, "CREATED") ELSE own
  BY <1>1 DEF Construct
<1>3. built \in Nat /\ built + 1 \in 0 .. Len(Order)
  BY <1>1, OrderParts
<1>4. name \notin DOMAIN own
  BY <1>1 DEF Constructed
<1> HIDE DEF name
<1>5. container' = Names(built')
  BY <1>1, <1>3, NextName DEF Constructed, name
<1>6. /\ own' \in [DOMAIN own' -> OwnStates] /\ DOMAIN own' \subseteq Managed
      /\ DOMAIN own' \subseteq container' /\ \A s \in DOMAIN own : own'[s] = own[s]
  <2>1. own \in [DOMAIN own -> OwnStates] /\ DOMAIN own \subseteq Managed /\ "CREATED" \in OwnStates
    BY DEF BootInv, OwnStates
  <2>2. CASE name \in Managed
    <3>1. own' = Noted(own, name, "CREATED")
      BY <1>2, <2>2
    <3>2. /\ own' \in [DOMAIN own' -> OwnStates] /\ DOMAIN own' = DOMAIN own \union {name}
          /\ \A k \in DOMAIN own : k # name => own'[k] = own[k]
      <4> DEFINE g == Noted(own, name, "CREATED")
      <4>1. /\ g \in [DOMAIN g -> OwnStates] /\ DOMAIN g = DOMAIN own \union {name}
            /\ \A k \in DOMAIN own : k # name => g[k] = own[k]
        BY <2>1, SMT DEF Noted
      <4> HIDE DEF g
      <4>2. own' = g
        BY <3>1 DEF g
      <4> QED BY <4>1, <4>2
    <3> QED BY <1>1, <1>4, <2>1, <2>2, <3>2 DEF Constructed
  <2>3. CASE name \notin Managed
    <3>1. own' = own
      BY <1>2, <2>3
    <3> QED BY <1>1, <2>1, <3>1 DEF Constructed
  <2> QED BY <2>2, <2>3
<1>7. services' = {}
  BY <1>1, OrderParts DEF Constructed
<1>8. CoreSoFar'
  BY <1>1 DEF Constructed, CoreSoFar
<1>9. Constructed'
  BY <1>1, <1>5, <1>6, <1>7, <1>8 DEF Constructed
<1>10. recorded' \in [DOMAIN recorded' -> LifecycleStates]
  BY <1>1 DEF BootInv
<1>11. built' \in 0 .. Len(Order) /\ phase' \in {"constructing"}
  BY <1>1, <1>3
<1> QED BY <1>1, <1>6, <1>9, <1>10, <1>11 DEF BootInv, Constructed

LEMMA RegisterCoreKeeps ==
    ASSUME BootInv, RegisterCore
    PROVE  /\ BootInv' /\ own' = own /\ ~running'
           /\ \A s \in DOMAIN recorded : recorded'[s] = recorded[s]
<1> DEFINE n == Cardinality(services)
           name == CoreServices[n + 1]
<1>1. /\ phase = "constructing" /\ phase' = phase /\ built' = built /\ built = Len(Order)
      /\ n < Len(CoreServices) /\ name \notin services /\ name \notin DOMAIN recorded
      /\ services' = services \union {name} /\ recorded' = Noted(recorded, name, "REGISTERED")
      /\ container' = container /\ own' = own /\ running' = running
      /\ Constructed
  BY DEF RegisterCore, BootInv
<1>2. n \in 0 .. Len(CoreServices) /\ IsFiniteSet(services) /\ services = CoreNames(n)
  BY <1>1 DEF Constructed, CoreSoFar
<1>3. n \in Nat /\ n + 1 \in 0 .. Len(CoreServices)
  <2>1. n \in 0 .. 26 /\ n < 26 /\ Len(CoreServices) = 26
    BY <1>1, <1>2, ListsAgree
  <2> HIDE DEF n
  <2> QED BY <2>1
<1>4. Cardinality(services') = n + 1 /\ IsFiniteSet(services')
  BY <1>1, <1>2, FS_AddElement
<1>5. services' = CoreNames(n + 1)
  BY <1>1, <1>2, <1>3, NextName
<1>6. CoreSoFar'
  BY <1>3, <1>4, <1>5 DEF CoreSoFar
<1> HIDE DEF n, name
<1>7. /\ recorded' \in [DOMAIN recorded' -> LifecycleStates]
      /\ DOMAIN recorded' = DOMAIN recorded \union {name}
      /\ \A k \in DOMAIN recorded : recorded'[k] = recorded[k]
  <2>1. recorded \in [DOMAIN recorded -> LifecycleStates] /\ "REGISTERED" \in LifecycleStates
    BY DEF BootInv, LifecycleStates
  <2>2. /\ recorded' \in [DOMAIN recorded' -> LifecycleStates]
        /\ DOMAIN recorded' = DOMAIN recorded \union {name}
        /\ \A k \in DOMAIN recorded : k # name => recorded'[k] = recorded[k]
    <3> DEFINE g == Noted(recorded, name, "REGISTERED")
    <3>1. /\ g \in [DOMAIN g -> LifecycleStates] /\ DOMAIN g = DOMAIN recorded \union {name}
          /\ \A k \in DOMAIN recorded : k # name => g[k] = recorded[k]
      BY <2>1, SMT DEF Noted
    <3> HIDE DEF g
    <3>2. recorded' = g
      BY <1>1 DEF g
    <3> QED BY <3>1, <3>2
  <2> QED BY <1>1, <2>2
<1>8. Constructed'
  BY <1>1, <1>6, <1>7 DEF Constructed
<1> QED BY <1>1, <1>7, <1>8 DEF BootInv, Constructed

\* When every core service is registered, the three lists are one.
LEMMA StartKeeps ==
    ASSUME BootInv, StartApplication
    PROVE  /\ BootInv' /\ own' = own /\ recorded' = recorded
           /\ container = services /\ services = DOMAIN recorded
<1>1. /\ phase = "constructing" /\ Constructed /\ Cardinality(services) = Len(CoreServices)
      /\ phase' = "loading" /\ built' = built /\ own' = own /\ recorded' = recorded
  BY DEF StartApplication, BootInv
<1>2. services = CoreNames(26)
  BY <1>1, ListsAgree DEF Constructed, CoreSoFar
<1>3. "configuration" \in CoreNames(26)
  BY DEF CoreNames, CoreServices
<1>4. built = 26
  BY <1>1, <1>2, <1>3, OrderParts DEF Constructed
<1>5. container = Names(26) /\ services = DOMAIN recorded
  BY <1>1, <1>4 DEF Constructed
<1>6. container = services
  BY <1>2, <1>5, ListsAgree
<1>7. BootInv'
  BY <1>1 DEF BootInv
<1> QED BY <1>1, <1>5, <1>6, <1>7

\* While modules are loaded, and after: nothing is constructed any more.
LEMMA BootedKeeps ==
    ASSUME BootInv, phase' \in {"loading", "loaded", "failing", "ended", "aborted"},
           built' = built, recorded' \in [DOMAIN recorded' -> LifecycleStates],
           own' \in [DOMAIN own' -> OwnStates], DOMAIN own' \subseteq Managed
    PROVE  BootInv'
BY DEF BootInv

LEMMA TransitionKeeps ==
    ASSUME BootInv, NEW s, NEW required, required \notin {"STOPPED", "FAILED"},
           NEW target \in LifecycleStates, Transition(s, required, target)
    PROVE  BootInv' /\ Final /\ own' = own
<1>1. /\ recorded \in [DOMAIN recorded -> LifecycleStates]
      /\ recorded[s] = required /\ recorded' = [recorded EXCEPT ![s] = target]
      /\ own' = own /\ built' = built /\ phase' = "loading"
  BY DEF BootInv, Transition, Loading
<1>2. recorded' \in [DOMAIN recorded' -> LifecycleStates]
  BY <1>1
<1>3. Final
  BY <1>1 DEF Final
<1>4. own' \in [DOMAIN own' -> OwnStates] /\ DOMAIN own' \subseteq Managed
  BY <1>1 DEF BootInv
<1> QED BY <1>1, <1>2, <1>3, <1>4, BootedKeeps

LEMMA RankGrows ==
    ASSUME NEW a \in OwnStates, NEW b \in OwnStates, a = b \/ <<a, b>> \in Lifecycle
    PROVE  LET rank == [CREATED |-> 0, INITIALIZING |-> 1, RUNNING |-> 2, STOPPED |-> 3]
           IN rank[a] <= rank[b]
BY DEF OwnStates, Lifecycle

LEMMA ShiftKeeps ==
    ASSUME BootInv, NEW s \in Managed, ShiftOwn(s)
    PROVE  BootInv' /\ OneWay /\ recorded' = recorded
<1>1. own \in [DOMAIN own -> OwnStates] /\ DOMAIN own \subseteq Managed
  BY DEF BootInv
<1>2. LifecycleOf[s] = Lifecycle
  BY ManagedAssumption
     DEF LifecycleOf, IntentRouterLifecycle, WorkflowEngineLifecycle, KnowledgeGraphLifecycle,
         ReasoningEngineLifecycle, DecisionEngineLifecycle, CapabilityExecutorLifecycle,
         ExecutionEngineLifecycle, ResponseEngineLifecycle
<1>3. PICK step \in Lifecycle : own[s] = step[1] /\ own' = [own EXCEPT ![s] = step[2]]
  BY <1>2 DEF ShiftOwn
<1>4. built' = built /\ phase' = "loading" /\ recorded' = recorded
  BY DEF ShiftOwn, Loading
<1>5. step = <<step[1], step[2]>> /\ step[2] \in OwnStates
  BY DEF Lifecycle, OwnStates
<1>6. own' \in [DOMAIN own' -> OwnStates] /\ DOMAIN own' = DOMAIN own
  BY <1>1, <1>3, <1>5
<1>7. \A k \in DOMAIN own : own'[k] = own[k] \/ <<own[k], own'[k]>> \in Lifecycle
  BY <1>3, <1>5
<1>8. OneWay
  BY <1>1, <1>6, <1>7, RankGrows DEF OneWay
<1>9. recorded' \in [DOMAIN recorded' -> LifecycleStates]
  BY <1>4 DEF BootInv
<1> QED BY <1>1, <1>4, <1>6, <1>8, <1>9, BootedKeeps

LEMMA StartEngineKeeps ==
    ASSUME BootInv, StartEngine
    PROVE  BootInv' /\ OneWay /\ recorded' = recorded
<1>1. own \in [DOMAIN own -> OwnStates] /\ DOMAIN own \subseteq Managed
  BY DEF BootInv
<1>2. built' = built /\ phase' = "loaded" /\ recorded' = recorded
  BY DEF StartEngine
<1>3. recorded' \in [DOMAIN recorded' -> LifecycleStates]
  BY <1>2 DEF BootInv
<1>4. CASE own' = own
  <2>1. OneWay
    BY <1>1, <1>4, RankGrows DEF OneWay
  <2> QED BY <1>1, <1>2, <1>3, <1>4, <2>1, BootedKeeps
<1>5. CASE own["workflow_engine"] = "CREATED" /\ own' = Noted(own, "workflow_engine", "RUNNING")
  <2>1. /\ own' \in [DOMAIN own' -> OwnStates]
        /\ DOMAIN own' = DOMAIN own \union {"workflow_engine"}
        /\ \A k \in DOMAIN own : own'[k] = own[k] \/ (own[k] = "CREATED" /\ own'[k] = "RUNNING")
    <3>1. own' = [k \in DOMAIN own \union {"workflow_engine"} |->
                      IF k = "workflow_engine" THEN "RUNNING" ELSE own[k]]
      BY <1>5 DEF Noted
    <3>2. "RUNNING" \in OwnStates
      BY DEF OwnStates
    <3>3. DOMAIN own' = DOMAIN own \union {"workflow_engine"}
      BY <3>1
    <3>4. ASSUME NEW k \in DOMAIN own
          PROVE  own'[k] = own[k] \/ (own[k] = "CREATED" /\ own'[k] = "RUNNING")
      <4>1. own'[k] = IF k = "workflow_engine" THEN "RUNNING" ELSE own[k]
        BY <3>1
      <4> QED BY <1>5, <4>1
    <3>5. \A k \in DOMAIN own' : own'[k] \in OwnStates
      BY <1>1, <3>1, <3>2
    <3>6. own' \in [DOMAIN own' -> OwnStates]
      BY <3>1, <3>3, <3>5
    <3> QED BY <3>3, <3>4, <3>6
  <2>2. OneWay
    BY <1>1, <2>1 DEF OneWay, OwnStates
  <2> QED BY <1>1, <1>2, <1>3, <2>1, <2>2, ManagedAssumption, BootedKeeps
<1> QED BY <1>4, <1>5 DEF StartEngine

\* A step that leaves the own states and the records as they are.
LEMMA SameStates ==
    ASSUME BootInv
    PROVE  (own' = own => OneWay) /\ (recorded' = recorded => Final)
<1>1. own' = own => OneWay
  BY RankGrows DEF BootInv, OneWay
<1> QED BY <1>1 DEF Final

LEMMA BootStep ==
    ASSUME BootInv, BootNext
    PROVE  BootInv' /\ OneWay /\ Complete /\ Final
<1> DEFINE kept == BootInv' /\ OneWay /\ Final
<1>1. ASSUME Construct PROVE kept /\ Complete
  <2>1. BootInv' /\ recorded' = recorded /\ ~running' /\ \A s \in DOMAIN own : own'[s] = own[s]
    BY <1>1, ConstructKeeps
  <2>2. OneWay
    BY <2>1, RankGrows DEF BootInv, OneWay
  <2> QED BY <2>1, <2>2, SameStates DEF Complete
<1>2. ASSUME RegisterCore PROVE kept /\ Complete
  <2>1. /\ BootInv' /\ own' = own /\ ~running'
        /\ \A s \in DOMAIN recorded : recorded'[s] = recorded[s]
    BY <1>2, RegisterCoreKeeps
  <2> QED BY <2>1, SameStates DEF Complete, Final
<1>3. ASSUME StartApplication PROVE kept /\ Complete
  BY <1>3, StartKeeps, SameStates DEF Complete
<1>4. ASSUME ConstructorRaises \/ LoadingRaises \/ Shutdown \/ \E name \in Modules : LoadModule(name)
      PROVE  kept /\ Complete
  <2>1. /\ phase' \in {"loading", "loaded", "failing", "ended", "aborted"}
        /\ built' = built /\ own' = own /\ recorded' = recorded
        /\ running' = running \/ ~running'
    BY <1>4 DEF ConstructorRaises, LoadingRaises, Shutdown, LoadModule
  <2>2. BootInv'
    BY <2>1, BootedKeeps DEF BootInv
  <2> QED BY <2>1, <2>2, SameStates DEF Complete
<1>5. ASSUME StartEngine PROVE kept /\ Complete
  <2>1. running' = running
    BY <1>5 DEF StartEngine
  <2> QED BY <1>5, <2>1, StartEngineKeeps, SameStates DEF Complete
<1>6. ASSUME NEW s \in Managed, ShiftOwn(s) PROVE kept /\ Complete
  <2>1. running' = running
    BY <1>6 DEF ShiftOwn, Loading
  <2> QED BY <1>6, <2>1, ShiftKeeps, SameStates DEF Complete
<1>7. ASSUME NEW s \in Managed,
             InitializeRecord(s) \/ StartRecord(s) \/ StopRecord(s) \/ FailRecord(s)
      PROVE  kept /\ Complete
  <2>1. PICK required \in {"REGISTERED", "INITIALIZING", "RUNNING", "STOPPING"},
             target \in LifecycleStates : Transition(s, required, target)
    BY <1>7 DEF InitializeRecord, StartRecord, StopRecord, FailRecord, Failable, LifecycleStates
  <2>2. required \notin {"STOPPED", "FAILED"} /\ running' = running
    BY <2>1 DEF Transition, Loading
  <2> QED BY <2>1, <2>2, TransitionKeeps, SameStates DEF Complete
<1>8. ASSUME NEW s \in Managed, Unregister(s) \/ RegisterAgain(s) PROVE kept /\ Complete
  <2>1. phase' = "loading" /\ built' = built /\ own' = own /\ recorded' = recorded /\ running' = running
    BY <1>8 DEF Unregister, RegisterAgain, Loading
  <2>2. BootInv'
    BY <2>1, BootedKeeps DEF BootInv
  <2> QED BY <2>1, <2>2, SameStates DEF Complete
<1> HIDE DEF kept
<1>9. kept /\ Complete
  BY <1>1, <1>2, <1>3, <1>4, <1>5, <1>6, <1>7, <1>8 DEF BootNext, Main
<1> QED BY <1>9 DEF kept

LEMMA BootProperties == BootInv => BootTypeOK /\ BuiltInOrder
<1> SUFFICES ASSUME BootInv PROVE BootTypeOK /\ BuiltInOrder
  OBVIOUS
<1>1. OwnStates \subseteq LifecycleStates
  BY DEF OwnStates, LifecycleStates
<1>2. BootTypeOK
  BY <1>1 DEF BootInv, BootTypeOK
<1>3. built \in 0 .. 26 /\ \A i \in 1 .. built : i \in 1 .. 26
  BY OrderParts DEF BootInv
<1> QED BY <1>2, <1>3, OrderIsBuildable DEF BuiltInOrder

\* The program comes up in an order in which everything it needs is there, with three
\* registries that agree; what was stopped or failed stays so, and no service goes back
\* (bootstrap, main, LifecycleManager).
THEOREM ProgramStaysSound == BootSpec => ProgramIsSound
<1>1. BootInv /\ [BootNext]_bootVars
          => BootInv' /\ [OneWay]_bootVars /\ [Complete]_bootVars /\ [Final]_bootVars
  <2>1. BootInv /\ UNCHANGED bootVars => BootInv'
    BY DEF bootVars, BootInv, Constructed, CoreSoFar
  <2> QED BY <2>1, BootStep
<1> QED BY <1>1, BootStart, BootProperties, PTL
        DEF BootSpec, ProgramIsSound, OwnGoesOneWay, RunningIsComplete, EndedIsFinal

-----------------------------------------------------------------------------
(* Few things *)

\* Sets of at most five elements are finite.
LEMMA FewAreFinite ==
    /\ IsFiniteSet({})
    /\ \A a : IsFiniteSet({a})
    /\ \A a, b : IsFiniteSet({a, b})
    /\ \A a, b, c : IsFiniteSet({a, b, c})
    /\ \A a, b, c, d : IsFiniteSet({a, b, c, d})
    /\ \A a, b, c, d, e : IsFiniteSet({a, b, c, d, e})
<1>1. IsFiniteSet({}) /\ \A a : IsFiniteSet({a})
  BY FS_EmptySet, FS_Singleton
<1>2. ASSUME NEW a, NEW b, NEW c, NEW d, NEW e
      PROVE  /\ IsFiniteSet({a, b}) /\ IsFiniteSet({a, b, c}) /\ IsFiniteSet({a, b, c, d})
             /\ IsFiniteSet({a, b, c, d, e})
  <2>1. /\ IsFiniteSet({a}) /\ {a, b} = {a} \union {b} /\ {a, b, c} = {a, b} \union {c}
        /\ {a, b, c, d} = {a, b, c} \union {d} /\ {a, b, c, d, e} = {a, b, c, d} \union {e}
    BY <1>1
  <2>2. IsFiniteSet({a, b})
    BY <2>1, FS_AddElement
  <2>3. IsFiniteSet({a, b, c})
    BY <2>1, <2>2, FS_AddElement
  <2>4. IsFiniteSet({a, b, c, d})
    BY <2>1, <2>3, FS_AddElement
  <2>5. IsFiniteSet({a, b, c, d, e})
    BY <2>1, <2>4, FS_AddElement
  <2> QED BY <2>2, <2>3, <2>4, <2>5
<1> QED BY <1>1, <1>2

-----------------------------------------------------------------------------
(* The tables of the value objects, class by class *)

\* A builder b fits its class, whose identifier is id and whose dictionary is in extra.
BuilderFits(b, class, id, extra) ==
    LET known == DOMAIN b.single \union b.several \union {extra} IN
    /\ b.cleared \subseteq b.several /\ b.unique \subseteq b.several
    /\ {"extra", "given", "nested"} \intersect (b.several \union DOMAIN class) = {}
    /\ {"metadata", "capability_metadata"} \intersect b.several = {}
    /\ \A f \in DOMAIN class : class[f] = New <=> f = id
    /\ \A f \in DOMAIN class : class[f] = Mapped => f = "metadata" /\ f # extra
    /\ known \subseteq DOMAIN class /\ id \in DOMAIN class \ b.several
    /\ id \notin {"metadata", "capability_metadata"}
    /\ DOMAIN class \ known \subseteq {id, "metadata"}
    /\ \A f \in DOMAIN b.single :
           /\ class[f] = Mandatory \/ f = id \/ b.single[f] = class[f]
           /\ b.single[f] = Own => b.cleared = {}
    /\ \A f \in b.several : class[f] \in {Mandatory, Listed}

\* Every builder fits its class.
LEMMA BuildersFit ==
    \A k \in DOMAIN Builds : \E id : BuilderFits(Builds[k], Objects[k], id, ExtraField(k))
<1> USE DEF Builder, BuilderFits, New, Own, NotSet, Listed, Mapped, Made, Mandatory, Blank
<1>1. BuilderFits(AutomationBuilder, Automation, "automation_id", "metadata")
  BY DEF AutomationBuilder, Automation
<1>2. BuilderFits(CapabilityBuilder, Capability, "id", "capability_metadata")
  BY DEF CapabilityBuilder, Capability
<1>3. BuilderFits(CapabilityContextBuilder, CapabilityContext, "context_id", "metadata")
  BY DEF CapabilityContextBuilder, CapabilityContext
<1>4. BuilderFits(CapabilityExecutionResultBuilder, CapabilityExecutionResult, "execution_id",
                  "metadata")
  BY DEF CapabilityExecutionResultBuilder, CapabilityExecutionResult
<1>5. BuilderFits(ContextBuilder, CognitiveContext, "context_id", "metadata")
  BY DEF ContextBuilder, CognitiveContext
<1>6. BuilderFits(DecisionRecordBuilder, DecisionRecord, "decision_id", "metadata")
  BY DEF DecisionRecordBuilder, DecisionRecord
<1>7. BuilderFits(ExecutionResultBuilder, ExecutionResult, "execution_id", "metadata")
  BY DEF ExecutionResultBuilder, ExecutionResult
<1>8. BuilderFits(GoalBuilder, Goal, "goal_id", "metadata")
  BY DEF GoalBuilder, Goal
<1>9. BuilderFits(PlanningSessionBuilder, PlanningSession, "session_id", "metadata")
  BY DEF PlanningSessionBuilder, PlanningSession
<1>10. BuilderFits(PolicyBuilder, Policy, "policy_id", "metadata")
  BY DEF PolicyBuilder, Policy
<1>11. BuilderFits(ProjectBuilder, Project, "project_id", "metadata")
  BY DEF ProjectBuilder, Project
<1>12. BuilderFits(TaskBuilder, Task, "task_id", "metadata")
  BY DEF TaskBuilder, Task
<1>13. BuilderFits(RelationshipBuilder, TaskRelationship, "relationship_id", "metadata")
  BY DEF RelationshipBuilder, TaskRelationship
<1>14. BuilderFits(TraceBuilder, ExecutionTrace, "trace_id", "metadata")
  BY DEF TraceBuilder, ExecutionTrace
<1>15. BuilderFits(WorkspaceBuilder, Workspace, "workspace_id", "metadata")
  BY DEF WorkspaceBuilder, Workspace
<1>16. BuilderFits(CompanyBuilder, Company, "company_id", "metadata")
  BY DEF CompanyBuilder, Company
<1>17. BuilderFits(ContactBuilder, Contact, "contact_id", "metadata")
  BY DEF ContactBuilder, Contact
<1>18. BuilderFits(CampaignBuilder, Campaign, "campaign_id", "metadata")
  BY DEF CampaignBuilder, Campaign
<1>19. BuilderFits(LeadBuilder, Lead, "lead_id", "metadata")
  BY DEF LeadBuilder, Lead
<1>20. BuilderFits(WorkItemBuilder, WorkItem, "work_item_id", "metadata")
  BY DEF WorkItemBuilder, WorkItem
<1> HIDE DEF Builder, BuilderFits, New, Own, NotSet, Listed, Mapped, Made, Mandatory, Blank
<1> QED BY <1>1, <1>2, <1>3, <1>4, <1>5, <1>6, <1>7, <1>8, <1>9, <1>10, <1>11, <1>12, <1>13,
           <1>14, <1>15, <1>16, <1>17, <1>18, <1>19, <1>20
       DEF Builds, Objects, ExtraField

\* A builder has finitely many lists.
LEMMA BuilderListsAreFew == \A k \in DOMAIN Builds : IsFiniteSet(Builds[k].several)
<1>1. /\ IsFiniteSet(AutomationBuilder.several) /\ IsFiniteSet(CapabilityBuilder.several)
      /\ IsFiniteSet(CapabilityContextBuilder.several)
      /\ IsFiniteSet(CapabilityExecutionResultBuilder.several)
      /\ IsFiniteSet(ContextBuilder.several) /\ IsFiniteSet(DecisionRecordBuilder.several)
      /\ IsFiniteSet(ExecutionResultBuilder.several) /\ IsFiniteSet(GoalBuilder.several)
      /\ IsFiniteSet(PlanningSessionBuilder.several) /\ IsFiniteSet(PolicyBuilder.several)
      /\ IsFiniteSet(ProjectBuilder.several) /\ IsFiniteSet(TaskBuilder.several)
      /\ IsFiniteSet(RelationshipBuilder.several) /\ IsFiniteSet(TraceBuilder.several)
      /\ IsFiniteSet(WorkspaceBuilder.several) /\ IsFiniteSet(CompanyBuilder.several)
      /\ IsFiniteSet(ContactBuilder.several) /\ IsFiniteSet(CampaignBuilder.several)
      /\ IsFiniteSet(LeadBuilder.several) /\ IsFiniteSet(WorkItemBuilder.several)
  BY FewAreFinite DEF Builder, AutomationBuilder, CapabilityBuilder, CapabilityContextBuilder,
      CapabilityExecutionResultBuilder, ContextBuilder, DecisionRecordBuilder,
      ExecutionResultBuilder, GoalBuilder, PlanningSessionBuilder, PolicyBuilder,
      ProjectBuilder, TaskBuilder, RelationshipBuilder, TraceBuilder, WorkspaceBuilder,
      CompanyBuilder, ContactBuilder, CampaignBuilder, LeadBuilder, WorkItemBuilder
<1> QED BY <1>1 DEF Builds

\* Defaults are members of their enumerations, and an identifier of a builder's own is not.
LEMMA EnumerationsFit ==
    /\ DOMAIN Enumerated \subseteq DOMAIN Builds
    /\ \A k \in DOMAIN Enumerated : \A f \in DOMAIN Enumerated[k] :
           Objects[k][f] \in Enumerated[k][f] /\ Own \notin Enumerated[k][f]
<1>1. /\ Automation.status \in AutomationStatus /\ Own \notin AutomationStatus
      /\ Automation.trigger \in AutomationTrigger /\ Own \notin AutomationTrigger
  BY DEF Automation, AutomationStatus, AutomationTrigger, Own
<1>2. /\ CapabilityExecutionResult.status \in CapabilityExecutionStatus
      /\ Own \notin CapabilityExecutionStatus
  BY DEF CapabilityExecutionResult, CapabilityExecutionStatus, Own
<1>3. /\ DecisionRecord.status \in DecisionRecordStatus /\ Own \notin DecisionRecordStatus
      /\ DecisionRecord.priority \in DecisionRecordPriority /\ Own \notin DecisionRecordPriority
  BY DEF DecisionRecord, DecisionRecordPriority, DecisionRecordStatus, Own
<1>4. ExecutionResult.status \in ExecutionStatus /\ Own \notin ExecutionStatus
  BY DEF ExecutionResult, ExecutionStatus, Own
<1>5. /\ Goal.status \in GoalStatus /\ Own \notin GoalStatus
      /\ Goal.priority \in GoalPriority /\ Own \notin GoalPriority
  BY DEF Goal, GoalPriority, GoalStatus, Own
<1>6. /\ Policy.status \in PolicyStatus /\ Own \notin PolicyStatus
      /\ Policy.scope \in PolicyScope /\ Own \notin PolicyScope
  BY DEF Policy, PolicyScope, PolicyStatus, Own
<1>7. Project.status \in ProjectStatus /\ Own \notin ProjectStatus
  BY DEF Project, ProjectStatus, Own
<1>8. Task.status \in TaskStatus /\ Own \notin TaskStatus
  BY DEF Task, TaskStatus, Own
<1>9. TaskRelationship.relationship_type \in RelationshipType /\ Own \notin RelationshipType
  BY DEF TaskRelationship, RelationshipType, Own
<1>10. Workspace.status \in WorkspaceStatus /\ Own \notin WorkspaceStatus
  BY DEF Workspace, WorkspaceStatus, Own
<1>11. Campaign.status \in CampaignStatus /\ Own \notin CampaignStatus
  BY DEF Campaign, CampaignStatus, Own
<1>12. /\ Lead.status \in LeadStatus /\ Own \notin LeadStatus
       /\ Lead.sync_state \in LeadSyncState /\ Own \notin LeadSyncState
  BY DEF Lead, LeadStatus, LeadSyncState, Own
<1>13. /\ WorkItem.work_type \in WorkItemType /\ Own \notin WorkItemType
       /\ WorkItem.status \in WorkItemStatus /\ Own \notin WorkItemStatus
  BY DEF WorkItem, WorkItemStatus, WorkItemType, Own
<1> QED BY <1>1, <1>2, <1>3, <1>4, <1>5, <1>6, <1>7, <1>8, <1>9, <1>10, <1>11, <1>12, <1>13
       DEF Enumerated, Objects, Builds

\* build() stamps metadata that its class has.
LEMMA MetadataFits == \A k \in DOMAIN Builds : Stamp \union {"extra"} \subseteq MetadataOf[k]
BY DEF Builds, MetadataOf, Stamp, AutomationMetadata, CampaignMetadata,
   CapabilityContextMetadata, CapabilityExecutionMetadata, CapabilityMetadata, CompanyMetadata,
   ContactMetadata, ContextMetadata, DecisionRecordMetadata, ExecutionMetadata, GoalMetadata,
   LeadMetadata, PlanningMetadata, PolicyMetadata, ProjectMetadata, RelationshipMetadata,
   TaskMetadata, TraceMetadata, WorkItemMetadata, WorkspaceMetadata

\* The classes without a builder agree with themselves.
LEMMA FrozensFit ==
    \A k \in DOMAIN Frozens :
        /\ FrozenAgrees(k) /\ IsFiniteSet(Frozens[k].copied)
        /\ "given" \notin Frozens[k].copied /\ "nested" \notin Frozens[k].copied
<1> DEFINE Fits(class) ==
               /\ class.copied \union class.shared \subseteq DOMAIN class.defaults
               /\ class.copied \intersect class.shared = {}
               /\ \A f \in DOMAIN class.defaults :
                      class.defaults[f] \in {Listed, Mapped} =>
                          f \in class.copied \union class.shared
               /\ "given" \notin class.copied /\ "nested" \notin class.copied
<1> USE DEF Frozen, New, NotSet, Blank, Listed, Mapped, Made, TheTime, Mandatory
<1>1. Fits(AgentSession)
  BY DEF AgentSession
<1>2. Fits(AgentRequest)
  BY DEF AgentRequest
<1>3. Fits(AgentResponse)
  BY DEF AgentResponse
<1>4. Fits(PipelineRequest)
  BY DEF PipelineRequest
<1>5. Fits(PipelineResult)
  BY DEF PipelineResult
<1>6. Fits(ResponseMetadata)
  BY DEF ResponseMetadata
<1>7. Fits(Response)
  BY DEF Response
<1>8. Fits(TraceStep)
  BY DEF TraceStep
<1>9. Fits(PlanningGoal)
  BY DEF PlanningGoal
<1>10. Fits(PlanningConstraint)
  BY DEF PlanningConstraint
<1>11. Fits(ConversationMessage)
  BY DEF ConversationMessage
<1>12. Fits(Intent)
  BY DEF Intent
<1>13. Fits(ParsedText)
  BY DEF ParsedText
<1>14. Fits(Event)
  BY DEF Event
<1>15. Fits(KnowledgeRecord)
  BY DEF KnowledgeRecord
<1>16. Fits(MemoryRecord)
  BY DEF MemoryRecord
<1>17. Fits(Entity)
  BY DEF Entity
<1>18. Fits(ReasoningQuery)
  BY DEF ReasoningQuery
<1>19. Fits(ReasoningResult)
  BY DEF ReasoningResult
<1>20. Fits(DecisionRule)
  BY DEF DecisionRule
<1>21. Fits(Decision)
  BY DEF Decision
<1>22. Fits(WorkflowStep)
  BY DEF WorkflowStep
<1>23. Fits(Workflow)
  BY DEF Workflow
<1>24. Fits(Execution)
  BY DEF Execution
<1>25. Fits(Connector)
  BY DEF Connector
<1>26. Fits(Plugin)
  BY DEF Plugin
<1>27. Fits(ServiceDescriptor)
  BY DEF ServiceDescriptor
<1>28. Fits(ImportResult)
  BY DEF ImportResult
<1>29. /\ IsFiniteSet(AgentSession.copied) /\ IsFiniteSet(AgentRequest.copied)
       /\ IsFiniteSet(AgentResponse.copied) /\ IsFiniteSet(PipelineRequest.copied)
       /\ IsFiniteSet(PipelineResult.copied) /\ IsFiniteSet(ResponseMetadata.copied)
       /\ IsFiniteSet(Response.copied) /\ IsFiniteSet(TraceStep.copied)
       /\ IsFiniteSet(PlanningGoal.copied) /\ IsFiniteSet(PlanningConstraint.copied)
       /\ IsFiniteSet(ConversationMessage.copied) /\ IsFiniteSet(Intent.copied)
       /\ IsFiniteSet(ParsedText.copied) /\ IsFiniteSet(Event.copied)
       /\ IsFiniteSet(KnowledgeRecord.copied) /\ IsFiniteSet(MemoryRecord.copied)
       /\ IsFiniteSet(Entity.copied) /\ IsFiniteSet(ReasoningQuery.copied)
       /\ IsFiniteSet(ReasoningResult.copied) /\ IsFiniteSet(DecisionRule.copied)
       /\ IsFiniteSet(Decision.copied) /\ IsFiniteSet(WorkflowStep.copied)
       /\ IsFiniteSet(Workflow.copied) /\ IsFiniteSet(Execution.copied)
       /\ IsFiniteSet(Connector.copied) /\ IsFiniteSet(Plugin.copied)
       /\ IsFiniteSet(ServiceDescriptor.copied) /\ IsFiniteSet(ImportResult.copied)
  BY FewAreFinite DEF AgentSession, AgentRequest, AgentResponse, PipelineRequest,
      PipelineResult, ResponseMetadata, Response, TraceStep, PlanningGoal, PlanningConstraint,
      ConversationMessage, Intent, ParsedText, Event, KnowledgeRecord, MemoryRecord, Entity,
      ReasoningQuery, ReasoningResult, DecisionRule, Decision, WorkflowStep, Workflow,
      Execution, Connector, Plugin, ServiceDescriptor, ImportResult
<1>30. Event.defaults.priority \in EventPriority /\ Execution.defaults.status \in RuntimeStatus
  BY DEF Event, Execution, EventPriority, RuntimeStatus
<1> HIDE DEF Frozen, New, NotSet, Blank, Listed, Mapped, Made, TheTime, Mandatory
<1> QED BY <1>1, <1>2, <1>3, <1>4, <1>5, <1>6, <1>7, <1>8, <1>9, <1>10, <1>11, <1>12, <1>13,
           <1>14, <1>15, <1>16, <1>17, <1>18, <1>19, <1>20, <1>21, <1>22, <1>23, <1>24, <1>25,
           <1>26, <1>27, <1>28, <1>29, <1>30
       DEF Frozens, FrozenAgrees

\* The tables of defaults agree, for every class.
LEMMA TablesHold == TablesAgree
<1>1. ASSUME NEW k \in DOMAIN Builds PROVE DefaultsAgree(k)
  <2>1. PICK id : BuilderFits(Builds[k], Objects[k], id, ExtraField(k))
    BY BuildersFit
  <2>2. IdField(k) = id
    BY <2>1 DEF BuilderFits, IdField
  <2> QED BY <2>1, <2>2, EnumerationsFit, MetadataFits DEF DefaultsAgree, BuilderFits
<1> QED BY <1>1, FrozensFit DEF TablesAgree

\* The fields that codecs write as JSON, for there may be any data in them.
JsonFields(codecs) == {f \in DOMAIN codecs : codecs[f] = "json"}

\* What is written into a record and what is read from it are kept by the same tables,
\* which have all fields of the class, and arbitrary data in one place.
LEMMA CodecsFit ==
    /\ ToDict = FromDict /\ _metadata_to_dict = _metadata_from_dict
    /\ \A extra : DOMAIN _metadata_to_dict = DOMAIN Stamped(extra)
    /\ JsonFields(_metadata_to_dict) = {"extra"}
    /\ \A k \in DOMAIN ToDict :
           /\ k \in DOMAIN Builds => /\ "metadata" \in DOMAIN ToDict[k] /\ k # "capability"
                                     /\ "capability_metadata" \notin DOMAIN ToDict[k]
                                     /\ DOMAIN ToDict[k] = DOMAIN Objects[k]
                                     /\ JsonFields(ToDict[k]) = {}
           /\ k \notin DOMAIN Builds => /\ "metadata" \notin DOMAIN ToDict[k]
                                        /\ DOMAIN ToDict[k] = DOMAIN Frozens[k].defaults
                                        /\ JsonFields(ToDict[k]) =
                                               DOMAIN ToDict[k] \intersect {"value"}
                                        /\ "value" \in DOMAIN ToDict[k] =>
                                               "value" \in Frozens[k].shared
<1>1. /\ company_to_dict = company_from_dict /\ contact_to_dict = contact_from_dict
      /\ campaign_to_dict = campaign_from_dict /\ lead_to_dict = lead_from_dict
      /\ work_item_to_dict = work_item_from_dict /\ knowledge_to_dict = knowledge_from_dict
      /\ memory_to_dict = memory_from_dict /\ _intent_to_payload = _intent_from_payload
      /\ _metadata_to_dict = _metadata_from_dict
  BY DEF company_to_dict, company_from_dict, contact_to_dict, contact_from_dict,
         campaign_to_dict, campaign_from_dict, lead_to_dict, lead_from_dict,
         work_item_to_dict, work_item_from_dict, knowledge_to_dict, knowledge_from_dict,
         memory_to_dict, memory_from_dict, _intent_to_payload, _intent_from_payload,
         _metadata_to_dict, _metadata_from_dict
<1>2. ToDict = FromDict
  BY <1>1 DEF ToDict, FromDict
<1>3. /\ \A extra : DOMAIN _metadata_to_dict = DOMAIN Stamped(extra)
      /\ JsonFields(_metadata_to_dict) = {"extra"}
  BY DEF _metadata_to_dict, Stamped, JsonFields
<1>4. /\ DOMAIN company_to_dict = DOMAIN Company /\ "metadata" \in DOMAIN Company
      /\ DOMAIN contact_to_dict = DOMAIN Contact /\ "metadata" \in DOMAIN Contact
  BY DEF company_to_dict, contact_to_dict, Company, Contact
<1>5. /\ DOMAIN campaign_to_dict = DOMAIN Campaign /\ "metadata" \in DOMAIN Campaign
      /\ DOMAIN lead_to_dict = DOMAIN Lead /\ "metadata" \in DOMAIN Lead
      /\ DOMAIN work_item_to_dict = DOMAIN WorkItem /\ "metadata" \in DOMAIN WorkItem
  BY DEF campaign_to_dict, lead_to_dict, work_item_to_dict, Campaign, Lead, WorkItem
<1>6. /\ DOMAIN knowledge_to_dict = DOMAIN KnowledgeRecord.defaults
      /\ DOMAIN memory_to_dict = DOMAIN MemoryRecord.defaults
      /\ DOMAIN _intent_to_payload = DOMAIN Intent.defaults
  BY DEF knowledge_to_dict, memory_to_dict, _intent_to_payload, KnowledgeRecord, MemoryRecord,
         Intent, Frozen
<1>7. "metadata" \notin DOMAIN knowledge_to_dict \union DOMAIN memory_to_dict
                        \union DOMAIN _intent_to_payload
  BY DEF knowledge_to_dict, memory_to_dict, _intent_to_payload
<1>8. "capability_metadata" \notin DOMAIN company_to_dict \union DOMAIN contact_to_dict
          \union DOMAIN campaign_to_dict \union DOMAIN lead_to_dict
          \union DOMAIN work_item_to_dict
  BY DEF company_to_dict, contact_to_dict, campaign_to_dict, lead_to_dict, work_item_to_dict
<1>9. /\ JsonFields(company_to_dict) = {} /\ JsonFields(contact_to_dict) = {}
      /\ JsonFields(campaign_to_dict) = {} /\ JsonFields(lead_to_dict) = {}
      /\ JsonFields(work_item_to_dict) = {}
  BY DEF JsonFields, company_to_dict, contact_to_dict, campaign_to_dict, lead_to_dict,
         work_item_to_dict
<1>10. /\ JsonFields(knowledge_to_dict) = {"value"} /\ "value" \in DOMAIN knowledge_to_dict
       /\ JsonFields(memory_to_dict) = {"value"} /\ "value" \in DOMAIN memory_to_dict
       /\ JsonFields(_intent_to_payload) = {} /\ "value" \notin DOMAIN _intent_to_payload
       /\ "value" \in KnowledgeRecord.shared /\ "value" \in MemoryRecord.shared
  BY DEF JsonFields, knowledge_to_dict, memory_to_dict, _intent_to_payload, KnowledgeRecord,
         MemoryRecord, Frozen
<1>11. ASSUME NEW k \in DOMAIN ToDict, k \in DOMAIN Builds
       PROVE  /\ "metadata" \in DOMAIN ToDict[k] /\ k # "capability"
              /\ "capability_metadata" \notin DOMAIN ToDict[k]
              /\ DOMAIN ToDict[k] = DOMAIN Objects[k] /\ JsonFields(ToDict[k]) = {}
  BY <1>4, <1>5, <1>8, <1>9, <1>11 DEF ToDict, Builds, Objects
<1>12. ASSUME NEW k \in DOMAIN ToDict, k \notin DOMAIN Builds
       PROVE  /\ "metadata" \notin DOMAIN ToDict[k]
              /\ DOMAIN ToDict[k] = DOMAIN Frozens[k].defaults
              /\ JsonFields(ToDict[k]) = DOMAIN ToDict[k] \intersect {"value"}
              /\ "value" \in DOMAIN ToDict[k] => "value" \in Frozens[k].shared
  BY <1>6, <1>7, <1>10, <1>12 DEF ToDict, Builds, Frozens
<1> QED BY <1>1, <1>2, <1>3, <1>11, <1>12

\* Every codec reads what it has written, JSON with its own forms.
LEMMA ReadAsWritten ==
    \A codec, x : Read(codec, Written(codec, x)) = IF codec = "json" THEN AfterJson(x) ELSE x
BY DEF Read, Written

\* What has come back from JSON once comes back as it is.
LEMMA JsonOnce == \A x : JsonForm(JsonForm(x)) = JsonForm(x)
BY DEF JsonForm, JsonForms

\* Entries with what is in them.
AreEntries(data) ==
    /\ data = [i \in DOMAIN data |-> data[i]]
    /\ \A i \in DOMAIN data :
           /\ data[i] = [nested |-> data[i].nested, items |-> data[i].items]
           /\ data[i].items = [j \in DOMAIN data[i].items |-> data[i].items[j]]

\* JSON changes the data that has no form there, and nothing the second time.
LEMMA JsonKeeps ==
    ASSUME NEW data, AreEntries(data)
    PROVE  /\ AfterJson(AfterJson(data)) = AfterJson(data)
           /\ ~Lossy(data) => AfterJson(data) = data
<1> DEFINE json == AfterJson(data)
           Forms(i) == [j \in DOMAIN data[i].items |-> JsonForm(data[i].items[j])]
<1>1. /\ DOMAIN json = DOMAIN data
      /\ \A i \in DOMAIN data : json[i] = [nested |-> data[i].nested, items |-> Forms(i)]
  <2> SUFFICES ASSUME NEW i \in DOMAIN data
               PROVE  json[i] = [nested |-> data[i].nested, items |-> Forms(i)]
    BY DEF AfterJson
  <2>1. data[i] = [nested |-> data[i].nested, items |-> data[i].items]
    BY DEF AreEntries
  <2>2. json[i] = [data[i] EXCEPT !.items = Forms(i)]
    BY DEF AfterJson
  <2> QED BY <2>1, <2>2
<1>2. json = [i \in DOMAIN data |-> json[i]]
  BY DEF AfterJson
<1>3. ASSUME NEW other, DOMAIN other = DOMAIN data, other = [i \in DOMAIN data |-> other[i]],
             \A i \in DOMAIN data : other[i] = json[i]
      PROVE  other = json
  BY <1>2, <1>3
<1>4. AfterJson(json) = json
  <2> DEFINE twice == AfterJson(json)
  <2>1. DOMAIN twice = DOMAIN data /\ twice = [i \in DOMAIN data |-> twice[i]]
    BY <1>1 DEF AfterJson
  <2>2. ASSUME NEW i \in DOMAIN data PROVE twice[i] = json[i]
    <3>1. twice[i] = [json[i] EXCEPT !.items =
                          [j \in DOMAIN json[i].items |-> JsonForm(json[i].items[j])]]
      BY <1>1 DEF AfterJson
    <3>2. json[i].items = Forms(i) /\ json[i] = [nested |-> data[i].nested, items |-> Forms(i)]
      BY <1>1
    <3>3. [j \in DOMAIN json[i].items |-> JsonForm(json[i].items[j])] = Forms(i)
      BY <3>2, JsonOnce
    <3> HIDE DEF Forms
    <3> QED BY <3>1, <3>2, <3>3
  <2> HIDE DEF twice, json
  <2>3. twice = json
    BY <1>2, <2>1, <2>2
  <2> QED BY <2>3 DEF twice
<1>5. ASSUME ~Lossy(data) PROVE json = data
  <2>1. ASSUME NEW i \in DOMAIN data PROVE json[i] = data[i]
    <3>1. \A j \in DOMAIN data[i].items : JsonForm(data[i].items[j]) = data[i].items[j]
      BY <1>5 DEF Lossy
    <3>2. Forms(i) = data[i].items
      BY <3>1 DEF AreEntries
    <3> HIDE DEF Forms, json
    <3> QED BY <1>1, <3>2 DEF AreEntries
  <2>2. data = [i \in DOMAIN data |-> data[i]]
    BY DEF AreEntries
  <2> HIDE DEF json
  <2> QED BY <1>2, <2>1, <2>2
<1> QED BY <1>4, <1>5

\* A view with all fields that are written for its kind, in the metadata too.
HasFields(k, view) ==
    /\ view = [f \in DOMAIN ToDict[k] |-> view[f]]
    /\ "metadata" \in DOMAIN ToDict[k] =>
           view.metadata = [f \in DOMAIN _metadata_to_dict |-> view.metadata[f]]

\* An object has its data in one place: it can be put there, and is found there.
LEMMA DataInPlace ==
    ASSUME NEW k \in DOMAIN ToDict, NEW view, HasFields(k, view)
    PROVE  /\ WithData(k, view, DataOf(k, view)) = view
           /\ \A x : HasFields(k, WithData(k, view, x))
           /\ \A x, y : WithData(k, WithData(k, view, x), y) = WithData(k, view, y)
           /\ "metadata" \in DOMAIN ToDict[k] \/ "value" \in DOMAIN ToDict[k] =>
                  \A x : DataOf(k, WithData(k, view, x)) = x
<1>0. "extra" \in DOMAIN _metadata_to_dict
  BY DEF _metadata_to_dict
<1>1. CASE "metadata" \in DOMAIN ToDict[k]
  <2> DEFINE inner(x) == [view.metadata EXCEPT !.extra = x]
  <2>1. \A x : WithData(k, view, x) = [view EXCEPT !.metadata = inner(x)]
    BY <1>1 DEF WithData
  <2>2. \A x : /\ inner(x).extra = x
               /\ inner(x) = [f \in DOMAIN _metadata_to_dict |-> inner(x)[f]]
               /\ \A y : [inner(x) EXCEPT !.extra = y] = inner(y)
    BY <1>0, <1>1 DEF HasFields
  <2>3. inner(view.metadata.extra) = view.metadata
    BY <1>0, <1>1 DEF HasFields
  <2> HIDE DEF inner
  <2>4. \A x : WithData(k, view, x).metadata = inner(x)
    BY <1>1, <2>1 DEF HasFields
  <2>5. \A x, y : WithData(k, WithData(k, view, x), y) = WithData(k, view, y)
    <3> SUFFICES ASSUME NEW x, NEW y
                 PROVE  WithData(k, WithData(k, view, x), y) = WithData(k, view, y)
      OBVIOUS
    <3>1. WithData(k, WithData(k, view, x), y)
              = [WithData(k, view, x) EXCEPT !.metadata = [@ EXCEPT !.extra = y]]
      BY <1>1 DEF WithData
    <3>2. [WithData(k, view, x).metadata EXCEPT !.extra = y] = inner(y)
      BY <2>2, <2>4
    <3>3. [WithData(k, view, x) EXCEPT !.metadata = inner(y)]
              = [view EXCEPT !.metadata = inner(y)]
      <4>1. \A z : [[view EXCEPT !.metadata = inner(x)] EXCEPT !.metadata = z]
                       = [view EXCEPT !.metadata = z]
        BY <1>1 DEF HasFields
      <4> QED BY <2>1, <4>1
    <3>4. WithData(k, WithData(k, view, x), y)
              = [WithData(k, view, x) EXCEPT !.metadata = inner(y)]
      BY <3>1, <3>2
    <3> QED BY <2>1, <3>3, <3>4
  <2>6. WithData(k, view, DataOf(k, view)) = view
    BY <1>1, <2>1, <2>3 DEF DataOf, HasFields
  <2>7. \A x : HasFields(k, WithData(k, view, x))
    BY <1>1, <2>1, <2>2, <2>4 DEF HasFields
  <2>8. \A x : DataOf(k, WithData(k, view, x)) = x
    BY <1>1, <2>2, <2>4 DEF DataOf
  <2> QED BY <2>5, <2>6, <2>7, <2>8
<1>2. CASE "metadata" \notin DOMAIN ToDict[k]
  BY <1>2 DEF HasFields, WithData, DataOf
<1> QED BY <1>1, <1>2

\* An object that is written field by field is found again as it was, with what JSON makes
\* of its data.
LEMMA RestoredIsSame ==
    ASSUME NEW k \in DOMAIN ToDict, NEW view, HasFields(k, view)
    PROVE  Restored(k, view) = WithData(k, view, AfterJson(DataOf(k, view)))
<1> DEFINE codecs == ToDict[k]
<1>0. /\ ToDict[k] = FromDict[k] /\ _metadata_to_dict = _metadata_from_dict
      /\ "metadata" \in DOMAIN codecs => JsonFields(codecs) = {}
      /\ "metadata" \notin DOMAIN codecs => JsonFields(codecs) = DOMAIN codecs \intersect {"value"}
      /\ JsonFields(_metadata_to_dict) = {"extra"} /\ "extra" \in DOMAIN _metadata_to_dict
  BY CodecsFit DEF JsonFields
<1>1. \A all, w : Loaded(all, Recorded(all, w)) =
          [f \in DOMAIN all |-> IF f \in JsonFields(all) THEN AfterJson(w[f]) ELSE w[f]]
  <2> SUFFICES ASSUME NEW all, NEW w
               PROVE  Loaded(all, Recorded(all, w)) =
                   [f \in DOMAIN all |-> IF f \in JsonFields(all) THEN AfterJson(w[f]) ELSE w[f]]
    OBVIOUS
  <2>1. \A f \in DOMAIN all : Read(all[f], Recorded(all, w)[f]) =
                                IF f \in JsonFields(all) THEN AfterJson(w[f]) ELSE w[f]
    BY ReadAsWritten DEF Recorded, JsonFields
  <2> QED BY <2>1 DEF Loaded
<1>2. CASE "metadata" \notin DOMAIN codecs
  <2>1. Restored(k, view) =
            [f \in DOMAIN codecs |-> IF f = "value" THEN AfterJson(view[f]) ELSE view[f]]
    BY <1>0, <1>1, <1>2 DEF Restored
  <2> QED BY <1>2, <2>1 DEF HasFields, WithData, DataOf
<1>3. CASE "metadata" \in DOMAIN codecs
  <2> DEFINE inner == Recorded(_metadata_to_dict, view.metadata)
             outer == [view EXCEPT !.metadata = inner]
             loaded == Loaded(codecs, Recorded(codecs, outer))
             after == [view.metadata EXCEPT !.extra = AfterJson(view.metadata.extra)]
  <2>1. DOMAIN view = DOMAIN codecs
    BY DEF HasFields
  <2>2. Restored(k, view) = [loaded EXCEPT !.metadata = Loaded(_metadata_to_dict, @)]
    BY <1>0, <1>3 DEF Restored
  <2>3. loaded = [f \in DOMAIN codecs |-> outer[f]]
    BY <1>0, <1>1, <1>3
  <2>4. Loaded(_metadata_to_dict, inner) = after
    BY <1>0, <1>1, <1>3 DEF HasFields
  <2>5. outer.metadata = inner /\ \A f \in DOMAIN codecs \ {"metadata"} : outer[f] = view[f]
    BY <1>3, <2>1
  <2> HIDE DEF inner, outer, codecs
  <2>6. loaded = [f \in DOMAIN codecs |-> IF f = "metadata" THEN inner ELSE view[f]]
    BY <2>1, <2>3, <2>5
  <2> HIDE DEF loaded
  <2>7. [loaded EXCEPT !.metadata = Loaded(_metadata_to_dict, @)]
            = [f \in DOMAIN codecs |-> IF f = "metadata" THEN after ELSE view[f]]
    BY <1>3, <2>1, <2>4, <2>6
  <2>8. WithData(k, view, AfterJson(DataOf(k, view))) = [view EXCEPT !.metadata = after]
    BY <1>3 DEF WithData, DataOf, codecs
  <2> HIDE DEF after
  <2>9. [view EXCEPT !.metadata = after]
            = [f \in DOMAIN codecs |-> IF f = "metadata" THEN after ELSE view[f]]
    BY <2>1 DEF HasFields, codecs
  <2> QED BY <2>2, <2>7, <2>8, <2>9
<1> QED BY <1>2, <1>3

-----------------------------------------------------------------------------
(* The heap *)

\* Fresh finds an address for each name that is not in use, for any finite heap: there are
\* more numbers to try than addresses.
LEMMA FreshIsNew ==
    ASSUME NEW used, IsFiniteSet(used), NEW names
    PROVE  LET fresh == Fresh(used, names) IN
           /\ fresh = [f \in names |-> fresh[f]]
           /\ \A f \in names : fresh[f] \notin used
           /\ \A f, g \in names : fresh[f] = fresh[g] => f = g
<1> DEFINE numbers == {a[1] : a \in used}
           all == 0 .. Cardinality(used)
           Free(n) == \A f \in names : <<n, f>> \notin used
<1>1. Cardinality(used) \in Nat
  BY FS_CardinalityType
<1>2. /\ IsFiniteSet(numbers) /\ Cardinality(numbers) <= Cardinality(used)
      /\ Cardinality(numbers) \in Nat
  <2> DEFINE number == [a \in used |-> a[1]]
  <2>0. number \in Surjection(used, numbers)
    BY DEF Surjection
  <2>1. IsFiniteSet(numbers) /\ Cardinality(numbers) <= Cardinality(used)
    BY <2>0, FS_Surjection
  <2> QED BY <2>1, FS_CardinalityType
<1>3. Cardinality(all) = Cardinality(used) + 1
  BY <1>1, FS_Interval
<1>4. ~ (all \subseteq numbers)
  <2>1. SUFFICES ASSUME all \subseteq numbers PROVE FALSE
    OBVIOUS
  <2>2. Cardinality(all) <= Cardinality(numbers)
    BY <1>2, <2>1, FS_Subset
  <2> QED BY <1>1, <1>2, <1>3, <2>2
<1>5. PICK n \in all : n \notin numbers
  BY <1>4
<1>6. Free(n)
  BY <1>5
<1> HIDE DEF Free
<1> DEFINE m == CHOOSE m \in all : Free(m)
<1>7. Free(m)
  BY <1>5, <1>6
<1>9. Fresh(used, names) = [f \in names |-> <<m, f>>]
  BY DEF Fresh, Free
<1> HIDE DEF m
<1> QED BY <1>7, <1>9 DEF Free

-----------------------------------------------------------------------------
(* The builders: whoever holds a list is alone with it, if not with what is in it *)

\* What the tables say of the kind that is looked at.
KindFits ==
    /\ IsFiniteSet(Copied) /\ Class.several \subseteq Containers
    /\ Copied = Containers \union Held /\ IsFiniteSet(Held)
    /\ Class.cleared \subseteq Class.several /\ Class.unique \subseteq Class.several
    /\ Host \intersect Copied = {} /\ Copied \intersect Shared = {}
    /\ (Copied \union Shared) \intersect Plain = {}
    /\ HasBuilder =>
           /\ Shared = {} /\ Held = Class.several \union {"extra"}
           /\ "extra" \notin Containers
           /\ ExtraField(kind) \notin Plain \union Containers
           /\ IdField(kind) \in Plain /\ Defaults[IdField(kind)] = New
           /\ \A f \in DOMAIN Class.single : Class.single[f] = Own => Class.cleared = {}
           /\ DOMAIN Defaults =
                  Plain \union Containers
                      \union (DOMAIN Defaults \intersect {"metadata", "capability_metadata"})
    /\ ~HasBuilder =>
           /\ Held = {} /\ Containers = Class.several /\ Class.cleared = {} /\ Class.unique = {}
           /\ DOMAIN Class.single = {} /\ DOMAIN Defaults = Plain \union Copied \union Shared

\* The tables give this for every kind.
LEMMA EveryKindFits == kind \in Kinds => KindFits
<1> SUFFICES ASSUME kind \in Kinds PROVE KindFits
  OBVIOUS
<1>1. CASE HasBuilder
  <2>1. Class = Builds[kind] /\ Defaults = Objects[kind] /\ Shared = {} /\ kind \in DOMAIN Builds
    BY <1>1 DEF Class, Defaults, Shared, HasBuilder
  <2>2. PICK id : BuilderFits(Class, Defaults, id, ExtraField(kind))
    BY <2>1, BuildersFit
  <2>3. IdField(kind) = id /\ Defaults[id] = New
    BY <2>1, <2>2 DEF BuilderFits, IdField
  <2>4. /\ Held = Class.several \union {"extra"} /\ IsFiniteSet(Class.several)
        /\ Containers = Class.several \union {f \in DOMAIN Defaults : Defaults[f] = Mapped}
        /\ Copied = Containers \union Held
    BY <1>1, <2>1, BuilderListsAreFew DEF Held, Containers, Copied
  <2>5. /\ Containers \subseteq Class.several \union {"metadata"}
        /\ Containers \subseteq DOMAIN Defaults
        /\ ExtraField(kind) \notin Containers
    <3>1. ExtraField(kind) \in {"metadata", "capability_metadata"}
      BY DEF ExtraField
    <3> QED BY <2>2, <2>4, <3>1 DEF BuilderFits
  <2>6. Plain = DOMAIN Defaults \ (Containers \union {"metadata", "capability_metadata"})
    BY <1>1, <2>1 DEF Plain
  <2>7. {"extra", "given", "nested"} \intersect (DOMAIN Defaults \union Class.several) = {}
    BY <2>2 DEF BuilderFits
  <2>8. /\ Host \intersect Copied = {} /\ Copied \intersect Plain = {}
        /\ "extra" \notin Containers
    <3>1. "extra" \notin Host
      BY DEF Host, Nested
    <3> QED BY <2>4, <2>5, <2>6, <2>7, <3>1 DEF Host, Nested
  <2>9. /\ ExtraField(kind) \notin Plain \union Containers
        /\ IsFiniteSet(Copied) /\ IsFiniteSet(Held)
    <3>1. ExtraField(kind) \in {"metadata", "capability_metadata"}
      BY DEF ExtraField
    <3>2. IsFiniteSet(Held)
      BY <2>4, FS_AddElement
    <3>3. IsFiniteSet(Held \union {"metadata"}) /\ Copied \subseteq Held \union {"metadata"}
      BY <2>4, <2>5, <3>2, FS_AddElement
    <3> QED BY <2>5, <2>6, <3>1, <3>2, <3>3, FS_Subset
  <2>10. id \in Plain
    BY <2>2, <2>5, <2>6 DEF BuilderFits
  <2>11. /\ Class.cleared \subseteq Class.several /\ Class.unique \subseteq Class.several
         /\ \A f \in DOMAIN Class.single : Class.single[f] = Own => Class.cleared = {}
    BY <2>2 DEF BuilderFits
  <2>12. Class.several \subseteq Containers /\ Containers \subseteq DOMAIN Defaults
    BY <2>4, <2>5
  <2> QED BY <1>1, <2>1, <2>3, <2>4, <2>5, <2>6, <2>7, <2>8, <2>9, <2>10, <2>11, <2>12
          DEF KindFits
<1>2. CASE ~HasBuilder
  <2> DEFINE class == Frozens[kind]
  <2>1. /\ kind \in DOMAIN Frozens /\ Defaults = class.defaults /\ Shared = class.shared
        /\ Class = Builder(<< >>, class.copied, {}, {})
    BY <1>2, KindsAssumption DEF Class, Defaults, Shared, HasBuilder
  <2>2. /\ Class.single = << >> /\ Class.several = class.copied
        /\ Class.cleared = {} /\ Class.unique = {}
    BY <2>1 DEF Builder
  <2>3. DOMAIN Class.single = {}
    BY <2>2
  <2>4. /\ Held = {} /\ Containers = class.copied /\ Copied = class.copied
        /\ Plain = DOMAIN Defaults \ (class.copied \union Shared)
    BY <1>2, <2>2 DEF Held, Containers, Copied, Plain
  <2>5. /\ IsFiniteSet(class.copied) /\ Host \intersect class.copied = {}
        /\ class.copied \intersect class.shared = {}
        /\ class.copied \union class.shared \subseteq DOMAIN class.defaults
    BY <2>1, FrozensFit DEF FrozenAgrees, Host, Nested
  <2>6. IsFiniteSet({})
    BY FS_EmptySet
  <2> QED BY <1>2, <2>1, <2>2, <2>3, <2>4, <2>5, <2>6 DEF KindFits
<1> QED BY <1>1, <1>2

\* What may stand in a list: items, and the mutable object of the caller.
Anything == Items \union {Nested}

\* An object, the lists of which are as the class says, and what it shares with its caller.
ObjectFits(object) ==
    /\ DOMAIN object.fields = Plain
    /\ DOMAIN object.lists = Copied \union Shared
    /\ \A f \in Shared : object.lists[f] = lists.given
    /\ \A f \in Class.several : heap[object.lists[f]] \in Seq(Anything)

\* A snapshot of the builder; who keeps its identifier cannot clear its lists.
IsSnapshot(object) ==
    HasBuilder /\ object.fields[IdField(kind)] = Own =>
        /\ Class.cleared = {}
        /\ \A f \in Class.several : IsPrefix(heap[object.lists[f]], heap[lists[f]])

\* The invariant: types and apartness, contents of the lists, objects that are as their
\* class says and snapshots of their builder, and no twins.
BuilderInv ==
    /\ BuilderTypeOK
    /\ DOMAIN lists = Held \union Host
    /\ \A f \in (DOMAIN lists \intersect Class.several) \union {"given"} :
           heap[lists[f]] \in Seq(Anything)
    /\ heap[lists[Nested]] \in Seq(Data)
    /\ IsFiniteSet(DOMAIN heap)
    /\ IsSequence(objects)
    /\ \A i \in DOMAIN objects : ObjectFits(objects[i]) /\ IsSnapshot(objects[i])
    /\ NoTwinItems

\* No object is taken away, nor one of its own lists changed.
ObjectsKept ==
    \A i \in DOMAIN objects :
        /\ i \in DOMAIN objects' /\ objects'[i] = objects[i]
        /\ \A f \in Copied : heap'[objects[i].lists[f]] = heap[objects[i].lists[f]]

\* The mutable object of the caller is where it was, and as it was.
NestedKept == lists'[Nested] = lists[Nested] /\ heap'[lists[Nested]] = heap[lists[Nested]]

\* The names are there, each for what it names.
LEMMA NamesFit ==
    ASSUME BuilderInv
    PROVE  /\ KindFits /\ BuilderTypeOK
           /\ Host \subseteq DOMAIN lists /\ "given" # Nested /\ Host = {"given", Nested}
           /\ Nested \notin Held \union Class.several \union Class.unique \union {"extra"}
           /\ "given" \notin Held \union Class.several \union Class.unique \union {"extra"}
           /\ Class.unique \subseteq DOMAIN lists /\ Class.cleared \subseteq DOMAIN lists
           /\ HasBuilder => Class.several \union {"extra"} \subseteq DOMAIN lists
           /\ \A f \in DOMAIN lists : lists[f] \in DOMAIN heap
           /\ \A i \in DOMAIN objects, f \in Copied : objects[i].lists[f] \in DOMAIN heap
<1>1. KindFits /\ BuilderTypeOK /\ DOMAIN lists = Held \union Host
  BY EveryKindFits DEF BuilderInv, BuilderTypeOK
<1>2. /\ "given" # Nested /\ Host = {"given", Nested} /\ "extra" \notin Host
  BY DEF Host, Nested
<1>3. /\ \A f \in DOMAIN lists : lists[f] \in DOMAIN heap
      /\ \A i \in DOMAIN objects, f \in Copied : objects[i].lists[f] \in DOMAIN heap
  BY <1>1 DEF BuilderTypeOK, AddressesOf
<1> QED BY <1>1, <1>2, <1>3 DEF KindFits

\* What the tables say depends on the kind alone.
LEMMA KindStays ==
    ASSUME kind' = kind
    PROVE  /\ HasBuilder' = HasBuilder /\ Class' = Class /\ Defaults' = Defaults
           /\ Held' = Held /\ Containers' = Containers
           /\ Copied' = Copied /\ Shared' = Shared /\ Plain' = Plain
           /\ IdField(kind)' = IdField(kind) /\ \A f : Acceptable(f)' = Acceptable(f)
BY DEF HasBuilder, Class, Defaults, Held, Containers, Copied, Shared, Plain, IdField, Acceptable

\* A prefix of a sequence stays a prefix when the sequence grows.
LEMMA PrefixGrows ==
    ASSUME NEW S, NEW s \in Seq(S), NEW t \in Seq(S), NEW x \in S, IsPrefix(s, t)
    PROVE  IsPrefix(s, Append(t, x))
<1>1. /\ Len(s) <= Len(t) /\ Len(Append(t, x)) = Len(t) + 1
      /\ SubSeq(s, 1, Len(s)) = SubSeq(t, 1, Len(s))
  BY DEF IsPrefix
<1>2. SubSeq(Append(t, x), 1, Len(s)) = SubSeq(t, 1, Len(s))
  BY <1>1
<1> QED BY <1>1, <1>2 DEF IsPrefix

\* build() copies all of the list.
LEMMA PrefixOfItself == ASSUME NEW S, NEW s \in Seq(S) PROVE IsPrefix(s, s)
BY DEF IsPrefix

\* One list of the builder or the caller changes, in place.
LEMMA ListChanges ==
    ASSUME BuilderInv, NEW f \in DOMAIN lists, NEW new, heap' = [heap EXCEPT ![lists[f]] = new],
           UNCHANGED <<kind, fields, lists, objects>>,
           f \in Class.several \union {"given"} => new \in Seq(Anything),
           f = Nested => new \in Seq(Data),
           f \in Class.unique => IsInjective(new),
           f \in Class.several =>
               \A s \in Seq(Anything) : IsPrefix(s, heap[lists[f]]) => IsPrefix(s, new)
    PROVE  BuilderInv' /\ ObjectsKept /\ (f # Nested => NestedKept)
<1> USE KindStays
<1>1. KindFits /\ BuilderTypeOK /\ Nested \in DOMAIN lists
  BY NamesFit
<1>2. /\ lists[f] \in DOMAIN heap /\ DOMAIN heap' = DOMAIN heap /\ heap'[lists[f]] = new
      /\ \A a \in DOMAIN heap : a # lists[f] => heap'[a] = heap[a]
  BY <1>1 DEF BuilderTypeOK, AddressesOf
<1>3. \A g \in DOMAIN lists :
          lists[g] \in DOMAIN heap /\ (g # f => heap'[lists[g]] = heap[lists[g]])
  BY <1>1, <1>2 DEF BuilderTypeOK, AddressesOf
<1>4. \A i \in DOMAIN objects, g \in Copied :
          heap'[objects[i].lists[g]] = heap[objects[i].lists[g]]
  BY <1>1, <1>2 DEF BuilderTypeOK, AddressesOf
<1>5. /\ DOMAIN lists = Held \union Host /\ Class.unique \subseteq DOMAIN lists
      /\ "given" \in DOMAIN lists /\ (HasBuilder => Class.several \subseteq DOMAIN lists)
  BY NamesFit DEF BuilderInv
<1>6. BuilderTypeOK'
  BY <1>1, <1>2 DEF BuilderTypeOK, AddressesOf
<1>7. /\ \A g \in (DOMAIN lists \intersect Class.several) \union {"given"} :
             heap'[lists[g]] \in Seq(Anything)
      /\ heap'[lists[Nested]] \in Seq(Data)
  BY <1>1, <1>2, <1>3, <1>5 DEF BuilderInv
<1>8. \A g \in Class.unique : IsInjective(heap'[lists[g]])
  BY <1>1, <1>2, <1>3, <1>5 DEF BuilderInv, NoTwinItems
<1>9. ASSUME NEW i \in DOMAIN objects PROVE ObjectFits(objects[i])' /\ IsSnapshot(objects[i])'
  <2>1. ObjectFits(objects[i]) /\ IsSnapshot(objects[i])
    BY DEF BuilderInv
  <2>2. ObjectFits(objects[i])'
    BY <1>1, <1>4, <2>1 DEF ObjectFits, KindFits, Anything
  <2>3. \A g \in Class.several : heap[objects[i].lists[g]] \in Seq(Anything)
    BY <2>1 DEF ObjectFits
  <2>4. ASSUME HasBuilder, NEW g \in Class.several,
               IsPrefix(heap[objects[i].lists[g]], heap[lists[g]])
        PROVE  IsPrefix(heap'[objects[i].lists[g]], heap'[lists[g]])
    <3>1. heap'[objects[i].lists[g]] = heap[objects[i].lists[g]] /\ g \in DOMAIN lists
      BY <1>1, <1>4, <1>5, <2>4 DEF KindFits
    <3>2. CASE g = f
      BY <1>2, <2>3, <2>4, <3>1, <3>2
    <3>3. CASE g # f
      BY <1>3, <2>4, <3>1, <3>3
    <3> QED BY <3>2, <3>3
  <2>5. IsSnapshot(objects[i])'
    BY <2>1, <2>4 DEF IsSnapshot
  <2> QED BY <2>2, <2>5
<1>10. BuilderInv'
  BY <1>2, <1>5, <1>6, <1>7, <1>8, <1>9 DEF BuilderInv, NoTwinItems, Anything
<1>11. f # Nested => NestedKept
  BY <1>1, <1>3 DEF NestedKept
<1> QED BY <1>4, <1>10, <1>11 DEF ObjectsKept

\* An object is made, with lists of its own.
LEMMA MakeKeeps ==
    ASSUME BuilderInv, NEW values, NEW content, MakeObject(values, content),
           DOMAIN values = Plain, \A f \in Class.several : content[f] \in Seq(Anything),
           HasBuilder /\ values[IdField(kind)] = Own =>
               Class.cleared = {} /\ \A f \in Class.several : IsPrefix(content[f], heap[lists[f]])
    PROVE  BuilderInv' /\ ObjectsKept /\ NestedKept
<1> DEFINE fresh == Fresh(DOMAIN heap, Copied)
           held == [f \in Copied \union Shared |-> IF f \in Copied THEN fresh[f] ELSE lists.given]
           object == [fields |-> values, lists |-> held]
           new == {fresh[f] : f \in Copied}
           ListsOf(them) == {them[i].lists[f] : i \in DOMAIN them, f \in Copied}
<1> PICK n : n = Len(objects)
  OBVIOUS
<1>1. KindFits /\ BuilderTypeOK
  BY EveryKindFits DEF BuilderInv, BuilderTypeOK
<1>2. /\ fresh = [f \in Copied |-> fresh[f]]
      /\ \A f \in Copied : fresh[f] \notin DOMAIN heap
      /\ \A f, g \in Copied : fresh[f] = fresh[g] => f = g
  BY FreshIsNew DEF BuilderInv
<1>3. /\ UNCHANGED <<kind, fields, lists>> /\ objects' = Append(objects, object)
      /\ heap' = [a \in DOMAIN heap \union AddressesOf(fresh) |->
                      IF a \in DOMAIN heap THEN heap[a]
                      ELSE content[CHOOSE f \in Copied : fresh[f] = a]]
  BY DEF MakeObject
<1>0. /\ kind' = kind /\ fields' = fields /\ lists' = lists /\ Held' = Held
      /\ HasBuilder' = HasBuilder /\ Class' = Class /\ Copied' = Copied /\ Shared' = Shared
      /\ Plain' = Plain /\ IdField(kind)' = IdField(kind)
      /\ \A f : Acceptable(f)' = Acceptable(f)
  BY <1>3, KindStays
<1> HIDE DEF fresh
<1>4. AddressesOf(fresh) = new
  BY <1>2 DEF AddressesOf
<1>5. /\ object.fields = values /\ DOMAIN object.lists = Copied \union Shared
      /\ \A f \in Copied : object.lists[f] = fresh[f]
      /\ \A f \in Shared : object.lists[f] = lists.given
  BY <1>1, <1>2 DEF KindFits
<1> HIDE DEF object
<1>6. /\ n \in Nat /\ DOMAIN objects = 1 .. n /\ DOMAIN objects' = 1 .. n + 1
      /\ objects'[n + 1] = object /\ \A i \in 1 .. n : objects'[i] = objects[i]
  BY <1>3, AppendAny DEF BuilderInv
<1>7. \A a \in DOMAIN heap : heap'[a] = heap[a]
  BY <1>3
<1>8. \A f \in Copied : heap'[fresh[f]] = content[f]
  <2> SUFFICES ASSUME NEW f \in Copied PROVE heap'[fresh[f]] = content[f]
    OBVIOUS
  <2>1. (CHOOSE g \in Copied : fresh[g] = fresh[f]) = f
    BY <1>2
  <2> QED BY <1>2, <1>3, <1>4, <2>1
<1>9. DOMAIN heap' = DOMAIN heap \union new
  BY <1>3, <1>4
<1>10. /\ \A f \in DOMAIN lists : lists[f] \in DOMAIN heap
       /\ \A i \in DOMAIN objects, f \in Copied : objects[i].lists[f] \in DOMAIN heap
  BY <1>1 DEF BuilderTypeOK, AddressesOf
<1>11. BuilderTypeOK'
  <2>1. DOMAIN heap' = AddressesOf(lists) \union ListsOf(objects')
    <3>1. DOMAIN heap = AddressesOf(lists) \union ListsOf(objects)
      BY <1>1 DEF BuilderTypeOK
    <3>2. ListsOf(objects') = ListsOf(objects) \union new
      <4>1. \A a \in ListsOf(objects') : a \in ListsOf(objects) \union new
        BY <1>5, <1>6
      <4>2. \A a \in new : a \in ListsOf(objects')
        BY <1>5, <1>6
      <4>3. \A a \in ListsOf(objects) : a \in ListsOf(objects')
        BY <1>6
      <4> HIDE DEF ListsOf, new
      <4> QED BY <4>1, <4>2, <4>3
    <3> HIDE DEF ListsOf, new
    <3> QED BY <1>9, <3>1, <3>2
  <2>2. ASSUME NEW i \in DOMAIN objects', NEW f \in Copied
        PROVE  objects'[i].lists[f] \notin AddressesOf(lists)
    BY <1>1, <1>2, <1>5, <1>6, <1>10 DEF BuilderTypeOK, AddressesOf
  <2>3. ASSUME NEW i \in DOMAIN objects', NEW f \in Copied,
               NEW j \in DOMAIN objects', NEW g \in Copied,
               objects'[i].lists[f] = objects'[j].lists[g]
        PROVE  i = j /\ f = g
    <3>1. CASE i \in DOMAIN objects /\ j \in DOMAIN objects
      BY <1>1, <1>6, <2>3, <3>1 DEF BuilderTypeOK
    <3>2. CASE i = n + 1 /\ j = n + 1
      BY <1>2, <1>5, <1>6, <2>3, <3>2
    <3>3. CASE i \in DOMAIN objects /\ j = n + 1
      BY <1>2, <1>5, <1>6, <1>10, <2>3, <3>3
    <3>4. CASE i = n + 1 /\ j \in DOMAIN objects
      BY <1>2, <1>5, <1>6, <1>10, <2>3, <3>4
    <3> QED BY <1>6, <3>1, <3>2, <3>3, <3>4
  <2> HIDE DEF ListsOf
  <2>4. DOMAIN heap' = AddressesOf(lists)' \union ListsOf(objects')
    BY <1>0, <2>1 DEF AddressesOf
  <2> USE DEF ListsOf
  <2> QED BY <1>0, <1>1, <2>2, <2>3, <2>4 DEF BuilderTypeOK, AddressesOf
<1>12. IsFiniteSet(DOMAIN heap')
  <2>1. fresh \in Surjection(Copied, new)
    BY <1>2 DEF Surjection
  <2>2. IsFiniteSet(new)
    BY <1>1, <2>1, FS_Surjection DEF KindFits
  <2> HIDE DEF new
  <2>3. IsFiniteSet(DOMAIN heap)
    BY DEF BuilderInv
  <2> QED BY <1>9, <2>2, <2>3, FS_Union
<1>13. /\ DOMAIN lists = Held \union Host
       /\ \A f \in DOMAIN lists : heap'[lists[f]] = heap[lists[f]]
       /\ \A i \in DOMAIN objects, f \in Copied :
              heap'[objects[i].lists[f]] = heap[objects[i].lists[f]]
  BY <1>7, <1>10 DEF BuilderInv
<1>22. /\ Class.several \subseteq Copied /\ Class.unique \subseteq DOMAIN lists
       /\ "given" \in DOMAIN lists /\ Nested \in DOMAIN lists
       /\ HasBuilder => Class.several \subseteq DOMAIN lists
  BY NamesFit DEF KindFits
<1>14. ASSUME NEW i \in DOMAIN objects PROVE ObjectFits(objects[i])' /\ IsSnapshot(objects[i])'
  <2>1. ObjectFits(objects[i]) /\ IsSnapshot(objects[i]) /\ objects'[i] = objects[i]
    BY <1>6 DEF BuilderInv
  <2>2. ObjectFits(objects[i])'
    BY <1>0, <1>13, <1>22, <2>1 DEF ObjectFits, Anything
  <2>3. IsSnapshot(objects[i])'
    BY <1>0, <1>13, <1>22, <2>1 DEF IsSnapshot
  <2> QED BY <2>2, <2>3
<1>15. ObjectFits(objects[n + 1])'
  BY <1>0, <1>1, <1>5, <1>6, <1>8, <1>22 DEF ObjectFits, KindFits, Anything
<1>16. IsSnapshot(objects[n + 1])'
  BY <1>0, <1>5, <1>6, <1>8, <1>13, <1>22 DEF IsSnapshot
<1>17. IsSequence(objects')
  BY <1>3, AppendAny DEF BuilderInv
<1>18. /\ \A f \in (DOMAIN lists \intersect Class.several) \union {"given"} :
              heap'[lists[f]] \in Seq(Anything)
       /\ heap'[lists[Nested]] \in Seq(Data)
  BY <1>13, <1>22 DEF BuilderInv
<1>19. NoTwinItems'
  BY <1>0, <1>13, <1>22 DEF BuilderInv, NoTwinItems
<1>20. \A i \in DOMAIN objects' : ObjectFits(objects[i])' /\ IsSnapshot(objects[i])'
  BY <1>6, <1>14, <1>15, <1>16
<1>21. BuilderInv'
  BY <1>0, <1>11, <1>12, <1>13, <1>17, <1>18, <1>19, <1>20 DEF BuilderInv, Anything
<1> QED BY <1>0, <1>6, <1>13, <1>21, <1>22 DEF ObjectsKept, NestedKept

\* A new builder has its own lists, all empty.
LEMMA BuilderStarts == BuilderInit => BuilderInv
<1> SUFFICES ASSUME BuilderInit PROVE BuilderInv
  OBVIOUS
<1> DEFINE names == Held \union Host
<1>1. /\ kind \in Kinds /\ fields = Class.single /\ lists = Fresh({}, names)
      /\ heap = [a \in AddressesOf(lists) |-> << >>] /\ objects = << >>
  BY DEF BuilderInit
<1>2. KindFits
  BY <1>1, EveryKindFits
<1>3. IsFiniteSet({}) /\ IsFiniteSet(names)
  <2>1. IsFiniteSet(Host)
    BY FewAreFinite DEF Host
  <2> QED BY <1>2, <2>1, FS_EmptySet, FS_Union DEF KindFits
<1>4. lists = [f \in names |-> lists[f]] /\ \A f, g \in names : lists[f] = lists[g] => f = g
  BY <1>1, <1>3, FreshIsNew
<1>5. DOMAIN heap = {lists[f] : f \in names} /\ AddressesOf(lists) = {lists[f] : f \in names}
  BY <1>1, <1>4 DEF AddressesOf
<1>6. IsFiniteSet(DOMAIN heap)
  <2> DEFINE addresses == {lists[f] : f \in names}
  <2>1. lists \in Surjection(names, addresses)
    BY <1>4 DEF Surjection
  <2>2. IsFiniteSet(addresses)
    BY <1>3, <2>1, FS_Surjection
  <2> QED BY <1>5, <2>2
<1>7. \A f \in names : heap[lists[f]] = << >>
  BY <1>1, <1>5
<1>8. /\ << >> \in Seq(Anything) /\ << >> \in Seq(Data) /\ << >> \in Seq({})
      /\ IsInjective(<< >>) /\ DOMAIN << >> = {}
  BY DEF IsInjective
<1>9. BuilderTypeOK
  <2>1. \A i : i \notin DOMAIN objects
    BY <1>1, <1>8
  <2> DEFINE taken == {objects[i].lists[f] : i \in DOMAIN objects, f \in Copied}
  <2>2. taken = {}
    BY <2>1
  <2> HIDE DEF taken
  <2>3. DOMAIN heap = AddressesOf(lists) \union taken
    BY <1>5, <2>2
  <2> USE DEF taken
  <2>4. \A f, g \in DOMAIN lists : lists[f] = lists[g] => f = g
    BY <1>4
  <2>5. /\ kind \in Kinds /\ DOMAIN fields = DOMAIN Class.single
        /\ \A f \in DOMAIN fields : fields[f] \in Acceptable(f) \union {Class.single[f]}
    BY <1>1
  <2>6. \A i \in DOMAIN objects, f \in Copied :
           /\ objects[i].lists[f] \notin AddressesOf(lists)
           /\ \A j \in DOMAIN objects, g \in Copied :
                  objects[i].lists[f] = objects[j].lists[g] => i = j /\ f = g
    BY <2>1
  <2> QED BY <2>3, <2>4, <2>5, <2>6 DEF BuilderTypeOK
<1>10. NoTwinItems
  <2>1. Class.unique \subseteq names
    BY <1>2 DEF KindFits
  <2> QED BY <1>7, <1>8, <2>1 DEF NoTwinItems
<1>11. /\ \A f \in (DOMAIN lists \intersect Class.several) \union {"given"} :
              heap[lists[f]] \in Seq(Anything)
       /\ heap[lists[Nested]] \in Seq(Data)
  <2>1. "given" \in names /\ Nested \in names /\ DOMAIN lists = names
    BY <1>4 DEF Host
  <2> QED BY <1>7, <1>8, <2>1
<1>12. DOMAIN lists = names /\ IsSequence(objects) /\ \A i : i \notin DOMAIN objects
  BY <1>1, <1>4, <1>8 DEF IsSequence
<1> QED BY <1>6, <1>9, <1>10, <1>11, <1>12 DEF BuilderInv

\* A setter touches no list.
LEMMA SetKeeps ==
    ASSUME BuilderInv, NEW f \in DOMAIN fields, NEW value \in Acceptable(f), Set(f, value)
    PROVE  BuilderInv' /\ ObjectsKept /\ NestedKept
<1>1. /\ kind' = kind /\ lists' = lists /\ heap' = heap /\ objects' = objects /\ Held' = Held
      /\ HasBuilder' = HasBuilder /\ Class' = Class /\ Copied' = Copied /\ Shared' = Shared
      /\ Plain' = Plain /\ IdField(kind)' = IdField(kind)
      /\ \A g : Acceptable(g)' = Acceptable(g)
  BY KindStays DEF Set
<1>2. fields' = [fields EXCEPT ![f] = value]
  BY DEF Set
<1>3. BuilderTypeOK'
  BY <1>1, <1>2 DEF BuilderInv, BuilderTypeOK, AddressesOf
<1>4. \A i \in DOMAIN objects : ObjectFits(objects[i])' /\ IsSnapshot(objects[i])'
  BY <1>1 DEF BuilderInv, ObjectFits, IsSnapshot, Anything
<1>5. NoTwinItems'
  BY <1>1 DEF BuilderInv, NoTwinItems
<1>6. BuilderInv'
  BY <1>1, <1>3, <1>4, <1>5 DEF BuilderInv, Anything
<1> QED BY <1>1, <1>6 DEF ObjectsKept, NestedKept

\* An item that a list has not may be appended to a list without twins.
LEMMA AppendApart ==
    ASSUME NEW s, IsSequence(s), NEW x, IsInjective(s), x \notin ToSet(s)
    PROVE  IsInjective(Append(s, x))
<1>1. PICK t : t = Append(s, x)
  OBVIOUS
<1>2. PICK n : n = Len(s)
  OBVIOUS
<1>3. /\ n \in Nat /\ DOMAIN s = 1 .. n /\ DOMAIN t = 1 .. n + 1
      /\ t[n + 1] = x /\ \A i \in 1 .. n : t[i] = s[i]
  BY <1>1, <1>2, AppendAny
<1>4. \A i \in DOMAIN s : s[i] # x
  BY DEF ToSet
<1>5. \A i, j \in DOMAIN s : s[i] = s[j] => i = j
  BY DEF IsInjective
<1>6. \A i, j \in DOMAIN t : t[i] = t[j] => i = j
  <2> SUFFICES ASSUME NEW i \in 1 .. n + 1, NEW j \in 1 .. n + 1, t[i] = t[j] PROVE i = j
    BY <1>3
  <2>1. CASE i = n + 1 \/ j = n + 1
    BY <1>3, <1>4, <2>1
  <2>2. CASE i # n + 1 /\ j # n + 1
    <3>1. i \in 1 .. n /\ j \in 1 .. n
      BY <1>3, <2>2
    <3> QED BY <1>3, <1>5, <3>1
  <2> QED BY <2>1, <2>2
<1> QED BY <1>1, <1>6 DEF IsInjective

\* An item that is not refused is appended.
LEMMA AppendedFits ==
    ASSUME NEW f, NEW item, NEW list \in Seq(Anything), ~Refused(f, item, list)
    PROVE  /\ item \in Items /\ Append(list, item) \in Seq(Anything)
           /\ f \in Class.unique /\ IsInjective(list) => IsInjective(Append(list, item))
           /\ \A s \in Seq(Anything) : IsPrefix(s, list) => IsPrefix(s, Append(list, item))
<1>1. /\ item \in Items /\ item \in Anything /\ Append(list, item) \in Seq(Anything)
      /\ f \in Class.unique => item \notin ToSet(list)
  BY DEF Refused, Anything
<1>2. f \in Class.unique /\ IsInjective(list) => IsInjective(Append(list, item))
  BY <1>1, AppendApart DEF IsSequence
<1>3. \A s \in Seq(Anything) : IsPrefix(s, list) => IsPrefix(s, Append(list, item))
  BY <1>1, PrefixGrows
<1> QED BY <1>1, <1>2, <1>3

\* What the lists of a builder are like.
LEMMA ListFits ==
    ASSUME BuilderInv, HasBuilder, NEW f \in Class.several
    PROVE  /\ f \in DOMAIN lists /\ f # Nested /\ heap[lists[f]] \in Seq(Anything)
           /\ f \in Class.unique => IsInjective(heap[lists[f]])
BY NamesFit DEF BuilderInv, NoTwinItems

\* with_task appends to the list of the builder.
LEMMA AppendItemKeeps ==
    ASSUME BuilderInv, HasBuilder, NEW f \in Class.several, NEW item, AppendItem(f, item)
    PROVE  BuilderInv' /\ ObjectsKept /\ NestedKept
<1> DEFINE list == heap[lists[f]]
<1>1. /\ heap' = [heap EXCEPT ![lists[f]] = Append(list, item)] /\ ~Refused(f, item, list)
      /\ UNCHANGED <<kind, fields, lists, objects>>
  BY DEF AppendItem
<1>2. /\ list \in Seq(Anything) /\ f \in DOMAIN lists /\ f # Nested
      /\ f \in Class.unique => IsInjective(list)
  BY ListFits
<1> HIDE DEF list
<1> QED BY <1>1, <1>2, AppendedFits, ListChanges DEF list

\* with_tasks appends two items, or one when the second is refused.
LEMMA AppendPairKeeps ==
    ASSUME BuilderInv, NEW f \in Class.cleared, NEW first, NEW second,
           AppendPair(f, first, second)
    PROVE  BuilderInv' /\ ObjectsKept /\ NestedKept
<1> DEFINE list == heap[lists[f]]
           one == Append(list, first)
           all == IF Refused(f, second, one) THEN one ELSE Append(one, second)
<1>1. /\ heap' = [heap EXCEPT ![lists[f]] = all] /\ ~Refused(f, first, list)
      /\ UNCHANGED <<kind, fields, lists, objects>>
  BY DEF AppendPair
<1>2. /\ list \in Seq(Anything) /\ f \in DOMAIN lists /\ f # Nested
      /\ f \in Class.unique => IsInjective(list)
  <2>1. HasBuilder /\ f \in Class.several
    BY NamesFit DEF KindFits
  <2> QED BY <2>1, ListFits
<1> HIDE DEF list
<1>3. /\ one \in Seq(Anything) /\ (f \in Class.unique => IsInjective(one))
      /\ \A s \in Seq(Anything) : IsPrefix(s, list) => IsPrefix(s, one)
  BY <1>1, <1>2, AppendedFits
<1> HIDE DEF one
<1>4. /\ all \in Seq(Anything) /\ (f \in Class.unique => IsInjective(all))
      /\ \A s \in Seq(Anything) : IsPrefix(s, list) => IsPrefix(s, all)
  BY <1>3, AppendedFits
<1> HIDE DEF all
<1> QED BY <1>1, <1>2, <1>4, ListChanges DEF list

\* with_metadata changes the dictionary of the builder, and takes what it is given as it is.
LEMMA PutExtraKeeps ==
    ASSUME BuilderInv, HasBuilder, NEW key, NEW value, PutExtra(key, value)
    PROVE  BuilderInv' /\ ObjectsKept /\ NestedKept
<1>1. /\ "extra" \in DOMAIN lists /\ "extra" # Nested
      /\ "extra" \notin Class.several \union {"given"} \union Class.unique
  BY NamesFit DEF KindFits
<1> DEFINE new == (key :> value) @@ heap[lists["extra"]]
<1>2. /\ heap' = [heap EXCEPT ![lists["extra"]] = new]
      /\ UNCHANGED <<kind, fields, lists, objects>>
  BY DEF PutExtra
<1> HIDE DEF new
<1> QED BY <1>1, <1>2, ListChanges

\* The caller changes its own list or mutable object.
LEMMA HostAppendsKeeps ==
    ASSUME BuilderInv, NEW name \in Host, NEW item, HostAppends(name, item),
           item \in IF name = Nested THEN Data ELSE Anything
    PROVE  BuilderInv' /\ ObjectsKept /\ (name # Nested => NestedKept)
<1> DEFINE new == Append(heap[lists[name]], item)
<1>1. /\ heap' = [heap EXCEPT ![lists[name]] = new]
      /\ UNCHANGED <<kind, fields, lists, objects>>
  BY DEF HostAppends
<1>2. /\ name \in DOMAIN lists /\ name \notin Class.several \union Class.unique
      /\ name = Nested => heap[lists[name]] \in Seq(Data) /\ item \in Data
      /\ name # Nested => name = "given" /\ heap[lists[name]] \in Seq(Anything)
                          /\ item \in Anything
      /\ "given" # Nested
  BY NamesFit DEF BuilderInv
<1>3. /\ name = Nested => new \in Seq(Data)
      /\ name = "given" => new \in Seq(Anything)
  BY <1>2
<1> HIDE DEF new
<1> QED BY <1>1, <1>2, <1>3, ListChanges

\* clear_tasks: the builder has another list, and nobody's is changed.
LEMMA ClearKeeps ==
    ASSUME BuilderInv, NEW f \in Class.cleared, Clear(f)
    PROVE  BuilderInv' /\ ObjectsKept /\ NestedKept
<1> DEFINE address == Fresh(DOMAIN heap, {f})[f]
           moved == [lists EXCEPT ![f] = address]
           before == [a \in DOMAIN heap \union {address} |->
                          IF a = address THEN << >> ELSE heap[a]]
           used == AddressesOf(moved)
                       \union UNION {AddressesOf(objects[i].lists) : i \in DOMAIN objects}
           ListsOf(them) == {them[i].lists[g] : i \in DOMAIN them, g \in Copied}
<1>1. KindFits /\ BuilderTypeOK
  BY EveryKindFits DEF BuilderInv, BuilderTypeOK
<1>2. address \notin DOMAIN heap
  BY FreshIsNew DEF BuilderInv
<1>3. /\ lists' = moved /\ UNCHANGED <<kind, fields, objects>>
      /\ heap' = [a \in used |-> before[a]]
  BY DEF Clear, Live
<1>4. /\ kind' = kind /\ fields' = fields /\ objects' = objects /\ Held' = Held
      /\ HasBuilder' = HasBuilder /\ Class' = Class /\ Copied' = Copied /\ Shared' = Shared
      /\ Plain' = Plain /\ IdField(kind)' = IdField(kind)
      /\ \A g : Acceptable(g)' = Acceptable(g)
  BY <1>3, KindStays
<1> HIDE DEF address
<1>5. /\ HasBuilder /\ Shared = {} /\ f \in Class.several /\ f \in Copied /\ f \notin Host
      /\ f \in DOMAIN lists /\ Host = {"given", Nested} /\ DOMAIN lists = Held \union Host
  BY <1>1, NamesFit DEF KindFits, BuilderInv
<1>6. /\ DOMAIN moved = DOMAIN lists /\ moved[f] = address
      /\ \A g \in DOMAIN lists : g # f => moved[g] = lists[g]
  BY <1>5
<1> HIDE DEF moved
<1>7. /\ \A g \in DOMAIN lists : lists[g] \in DOMAIN heap
      /\ \A i \in DOMAIN objects, g \in Copied : objects[i].lists[g] \in DOMAIN heap
  BY <1>1 DEF BuilderTypeOK, AddressesOf
<1>8. \A i \in DOMAIN objects : DOMAIN objects[i].lists = Copied
  BY <1>5 DEF BuilderInv, ObjectFits
<1>9. used = AddressesOf(moved) \union ListsOf(objects)
  BY <1>8 DEF AddressesOf
<1>10. /\ \A g \in DOMAIN lists : moved[g] \in used
       /\ \A i \in DOMAIN objects, g \in Copied : objects[i].lists[g] \in used
       /\ used \subseteq DOMAIN heap \union {address}
  <2>1. \A a : a \in AddressesOf(moved) <=> \E g \in DOMAIN lists : a = moved[g]
    BY <1>6 DEF AddressesOf
  <2>2. \A a \in AddressesOf(moved) : a \in DOMAIN heap \union {address}
    BY <1>6, <1>7, <2>1
  <2>3. \A a \in ListsOf(objects) : a \in DOMAIN heap
    BY <1>7
  <2>4. \A i \in DOMAIN objects, g \in Copied : objects[i].lists[g] \in ListsOf(objects)
    OBVIOUS
  <2> HIDE DEF used, ListsOf
  <2> QED BY <1>9, <2>1, <2>2, <2>3, <2>4
<1> HIDE DEF used
<1>11. /\ DOMAIN heap' = used /\ heap'[moved[f]] = << >>
       /\ \A a \in used : a \in DOMAIN heap => heap'[a] = heap[a]
  BY <1>2, <1>3, <1>5, <1>6, <1>10
<1>12. /\ \A g \in DOMAIN lists : g # f => heap'[moved[g]] = heap[lists[g]]
       /\ \A i \in DOMAIN objects, g \in Copied :
              heap'[objects[i].lists[g]] = heap[objects[i].lists[g]]
  BY <1>6, <1>7, <1>10, <1>11
<1>13. BuilderTypeOK'
  <2>1. \A g, h \in DOMAIN moved : moved[g] = moved[h] => g = h
    BY <1>1, <1>2, <1>6, <1>7 DEF BuilderTypeOK
  <2>2. ASSUME NEW i \in DOMAIN objects, NEW g \in Copied
        PROVE  objects[i].lists[g] \notin AddressesOf(moved)
    BY <1>1, <1>2, <1>6, <1>7 DEF BuilderTypeOK, AddressesOf
  <2>3. DOMAIN heap' = AddressesOf(lists)' \union ListsOf(objects)'
    BY <1>3, <1>4, <1>9, <1>11 DEF AddressesOf
  <2> QED BY <1>1, <1>3, <1>4, <2>1, <2>2, <2>3 DEF BuilderTypeOK
<1>14. IsFiniteSet(DOMAIN heap')
  <2>1. IsFiniteSet(DOMAIN heap \union {address})
    BY FS_AddElement DEF BuilderInv
  <2> QED BY <1>10, <1>11, <2>1, FS_Subset
<1>15. << >> \in Seq(Anything) /\ IsInjective(<< >>)
  BY DEF IsInjective
<1>16. /\ \A g \in (DOMAIN lists \intersect Class.several) \union {"given"} :
              heap'[moved[g]] \in Seq(Anything)
       /\ heap'[moved[Nested]] \in Seq(Data)
  BY <1>5, <1>11, <1>12, <1>15 DEF BuilderInv
<1>17. \A g \in Class.unique : IsInjective(heap'[moved[g]])
  BY <1>5, <1>11, <1>12, <1>15, NamesFit DEF BuilderInv, NoTwinItems
<1>18. ASSUME NEW i \in DOMAIN objects PROVE ObjectFits(objects[i])' /\ IsSnapshot(objects[i])'
  <2>1. ObjectFits(objects[i]) /\ IsSnapshot(objects[i])
    BY DEF BuilderInv
  <2>2. ObjectFits(objects[i])'
    BY <1>1, <1>4, <1>5, <1>12, <2>1 DEF ObjectFits, KindFits, Anything
  <2>3. ~(objects[i].fields[IdField(kind)] = Own)
    BY <1>5, <2>1 DEF IsSnapshot
  <2>4. IsSnapshot(objects[i])'
    BY <1>4, <2>3 DEF IsSnapshot
  <2> QED BY <2>2, <2>4
<1>19. BuilderInv'
  BY <1>3, <1>4, <1>5, <1>6, <1>13, <1>14, <1>16, <1>17, <1>18
     DEF BuilderInv, NoTwinItems, Anything
<1>20. NestedKept
  BY <1>3, <1>5, <1>6, <1>12 DEF NestedKept
<1> QED BY <1>4, <1>12, <1>19, <1>20 DEF ObjectsKept

\* What build() passes for the identifier is the builder's own only if it had it from the start.
LEMMA OwnIsFirst ==
    ASSUME BuilderInv, HasBuilder, Passed[IdField(kind)] = Own
    PROVE  Class.cleared = {}
<1> DEFINE id == IdField(kind)
<1>1. KindFits /\ id \in Plain /\ Defaults[id] = New /\ New # Own
  BY EveryKindFits DEF BuilderInv, BuilderTypeOK, KindFits, New, Own
<1>2. id \in DOMAIN fields /\ fields[id] = Own
  BY <1>1 DEF Passed
<1>3. Own \notin Acceptable(id)
  <2>1. Own # "True" /\ Own # "False"
    BY DEF Own
  <2> QED BY <2>1, EnumerationsFit, ValuesAssumption DEF Acceptable
<1>4. Class.single[id] = Own /\ id \in DOMAIN Class.single
  BY <1>2, <1>3 DEF BuilderInv, BuilderTypeOK
<1> QED BY <1>1, <1>4 DEF KindFits

\* build() copies the lists of the builder.
LEMMA BuildKeeps ==
    ASSUME BuilderInv, Build
    PROVE  BuilderInv' /\ ObjectsKept /\ NestedKept
<1> DEFINE content == [f \in Copied |-> IF f \in Held THEN heap[lists[f]] ELSE << >>]
<1>1. HasBuilder /\ MakeObject(Passed, content) /\ KindFits
  BY NamesFit DEF Build
<1>2. DOMAIN Passed = Plain
  BY DEF Passed
<1>3. \A f \in Class.several : content[f] = heap[lists[f]] /\ content[f] \in Seq(Anything)
  BY <1>1, ListFits DEF KindFits
<1>4. \A f \in Class.several : IsPrefix(content[f], heap[lists[f]])
  BY <1>3, PrefixOfItself
<1> HIDE DEF content
<1> QED BY <1>1, <1>2, <1>3, <1>4, OwnIsFirst, MakeKeeps

\* A call of the class copies what it is given.
LEMMA CallClassKeeps ==
    ASSUME BuilderInv, NEW g \in Containers \union Shared, CallClass(g)
    PROVE  BuilderInv' /\ ObjectsKept /\ NestedKept
<1> DEFINE values == [f \in Plain |-> IF Defaults[f] = Mandatory THEN Blank ELSE Defaults[f]]
           content == [f \in Copied |-> IF f = g THEN heap[lists["given"]] ELSE << >>]
<1>1. MakeObject(values, content) /\ KindFits
  BY NamesFit DEF CallClass
<1>2. \A f \in Class.several : content[f] \in Seq(Anything)
  BY <1>1 DEF KindFits, BuilderInv
<1>3. HasBuilder => values[IdField(kind)] # Own
  BY <1>1 DEF KindFits, New, Own, Mandatory
<1>4. DOMAIN values = Plain
  OBVIOUS
<1> HIDE DEF content, values
<1> QED BY <1>1, <1>2, <1>3, <1>4, MakeKeeps

\* Every step keeps the invariant, and every object; and the mutable object of the caller,
\* unless it is the caller that changes it.
LEMMA BuilderStep ==
    ASSUME BuilderInv, BuilderNext PROVE BuilderInv' /\ ObjectsKept /\ (NestedKept \/ NestedChanges)
<1>1. ASSUME NEW f \in DOMAIN fields, NEW value \in Acceptable(f), Set(f, value)
      PROVE  BuilderInv' /\ ObjectsKept /\ NestedKept
  BY <1>1, SetKeeps
<1>2. ASSUME HasBuilder, NEW value, PutExtra("key", value)
      PROVE  BuilderInv' /\ ObjectsKept /\ NestedKept
  BY <1>2, PutExtraKeeps
<1>3. ASSUME NEW f \in Class.cleared, NEW first, NEW second, AppendPair(f, first, second)
      PROVE  BuilderInv' /\ ObjectsKept /\ NestedKept
  BY <1>3, AppendPairKeeps
<1>4. ASSUME NEW item \in Items \union {Nested}, HostAppends("given", item)
      PROVE  BuilderInv' /\ ObjectsKept /\ NestedKept
  <2>1. "given" \in Host /\ "given" # Nested /\ item \in Anything
    BY DEF Host, Nested, Anything
  <2> QED BY <1>4, <2>1, HostAppendsKeeps
<1>5. ASSUME NEW item \in Data, HostAppends(Nested, item)
      PROVE  BuilderInv' /\ ObjectsKept /\ NestedChanges
  <2>1. Nested \in Host
    BY DEF Host
  <2> QED BY <1>5, <2>1, HostAppendsKeeps DEF NestedChanges
<1> QED BY <1>1, <1>2, <1>3, <1>4, <1>5, AppendItemKeeps, CallClassKeeps, ClearKeeps, BuildKeeps
        DEF BuilderNext

\* No step makes another class of it.
LEMMA KindIsKept == BuilderNext => kind' = kind
BY DEF BuilderNext, Set, PutExtra, AppendItem, AppendPair, Clear, CallClass, HostAppends, Build,
       MakeObject

\* What is in the entries of an object changes with the mutable object of the caller, and
\* where that is an entry.
LEMMA InsideStays ==
    ASSUME BuilderInv, BuilderInv', kind' = kind, ObjectsKept, NestedKept \/ NestedChanges,
           NEW i \in DOMAIN objects, NEW f \in Copied
    PROVE  LET mine == objects[i].lists[f] IN
           Inside'[mine] = Inside[mine] \/ (NestedChanges /\ Nested \in Range(heap[mine]))
<1> DEFINE mine == objects[i].lists[f]
           list == heap[mine]
           Seen(x, inner) == IF x = Nested THEN [nested |-> TRUE, items |-> inner]
                             ELSE [nested |-> FALSE, items |-> <<x>>]
<1>1. mine \in DOMAIN heap /\ heap'[mine] = list
  BY NamesFit DEF ObjectsKept
<1>2. mine \in DOMAIN heap'
  BY KindStays DEF BuilderInv, BuilderTypeOK, ObjectsKept
<1> HIDE DEF mine
<1> DEFINE SeenBefore == [j \in DOMAIN list |-> Seen(list[j], heap[lists[Nested]])]
           SeenAfter == [j \in DOMAIN list |-> Seen(list[j], heap'[lists'[Nested]])]
<1>3. Inside[mine] = SeenBefore /\ Inside'[mine] = SeenAfter
  <2>1. \A x : Entry(x) = Seen(x, heap[lists[Nested]])
    BY DEF Entry
  <2>2. Inside' = [a \in DOMAIN heap' |-> [j \in DOMAIN heap'[a] |->
                      Seen(heap'[a][j], heap'[lists'[Nested]])]]
    BY DEF Inside, Entry
  <2>3. Inside = [a \in DOMAIN heap |-> [j \in DOMAIN heap[a] |->
                      Seen(heap[a][j], heap[lists[Nested]])]]
    BY <2>1 DEF Inside
  <2> HIDE DEF Seen
  <2> QED BY <1>1, <1>2, <2>2, <2>3
<1>4. ASSUME NestedKept PROVE Inside'[mine] = Inside[mine]
  <2>1. heap'[lists'[Nested]] = heap[lists[Nested]]
    BY <1>4 DEF NestedKept
  <2>2. SeenAfter = SeenBefore
    <3> HIDE DEF Seen, list
    <3> QED BY <2>1
  <2> HIDE DEF SeenBefore, SeenAfter
  <2> QED BY <1>3, <2>2
<1>5. ASSUME Nested \notin Range(list) PROVE Inside'[mine] = Inside[mine]
  <2>1. \A j \in DOMAIN list : list[j] # Nested
    BY <1>5 DEF Range
  <2>2. \A j \in DOMAIN list : Seen(list[j], heap[lists[Nested]])
                                   = Seen(list[j], heap'[lists'[Nested]])
    BY <2>1
  <2>3. SeenAfter = SeenBefore
    <3> HIDE DEF Seen, list
    <3> QED BY <2>2
  <2> HIDE DEF SeenBefore, SeenAfter
  <2> QED BY <1>3, <2>3
<1> QED BY <1>4, <1>5 DEF mine

\* The invariant holds for every builder and every class.
LEMMA BuilderInvHolds == BuilderSpec => []BuilderInv
<1>1. BuilderInv /\ UNCHANGED builderVars => BuilderInv'
  BY KindStays DEF BuilderInv, BuilderTypeOK, ObjectFits, IsSnapshot, NoTwinItems, AddressesOf,
                   Anything, builderVars
<1>2. BuilderInv /\ [BuilderNext]_builderVars => BuilderInv'
  BY <1>1, BuilderStep
<1> QED BY <1>2, BuilderStarts, PTL DEF BuilderSpec

\* What is seen of an object that is saved: the fields that are written for it, and the data
\* as entries with what is in them.
LEMMA ViewFits ==
    ASSUME BuilderInv, kind \in DOMAIN ToDict, NEW i \in DOMAIN objects
    PROVE  LET view == View(objects[i], Inside) IN
           HasFields(kind, view) /\ AreEntries(DataOf(kind, view))
<1> DEFINE view == View(objects[i], Inside)
           stamped == IF HasBuilder THEN {ExtraField(kind)} ELSE {}
<1>1. KindFits /\ ObjectFits(objects[i])
  BY NamesFit DEF BuilderInv
<1>2. /\ DOMAIN view = Plain \union Containers \union Shared \union stamped
      /\ view = [f \in DOMAIN view |-> view[f]]
      /\ \A f \in stamped : f \notin Plain => view[f] = Stamped(Inside[objects[i].lists["extra"]])
      /\ \A f \in Shared : f \notin Plain \union stamped =>
             view[f] = Inside[objects[i].lists[f]]
  BY <1>1 DEF View, ObjectFits
<1>3. \A a \in DOMAIN heap : AreEntries(Inside[a])
  <2>1. heap[lists[Nested]] = [j \in DOMAIN heap[lists[Nested]] |-> heap[lists[Nested]][j]]
    BY DEF BuilderInv
  <2>2. ASSUME NEW x
        PROVE  /\ Entry(x) = [nested |-> Entry(x).nested, items |-> Entry(x).items]
               /\ Entry(x).items = [j \in DOMAIN Entry(x).items |-> Entry(x).items[j]]
    <3>1. <<x>> = [j \in DOMAIN <<x>> |-> <<x>>[j]]
      <4>1. <<x>> \in Seq({x})
        OBVIOUS
      <4> QED BY <4>1
    <3>2. PICK b, s : /\ Entry(x) = [nested |-> b, items |-> s]
                    /\ s = [j \in DOMAIN s |-> s[j]]
      BY <2>1, <3>1 DEF Entry
    <3> QED BY <3>2
  <2> QED BY <2>2 DEF AreEntries, Inside
<1> HIDE DEF view
<1>4. CASE HasBuilder
  <2>1. kind \in DOMAIN Builds /\ Defaults = Objects[kind] /\ Shared = {}
    BY <1>1, <1>4 DEF HasBuilder, Defaults, KindFits
  <2>2. /\ ExtraField(kind) = "metadata" /\ DOMAIN ToDict[kind] = DOMAIN Defaults
        /\ "metadata" \in DOMAIN Defaults /\ "capability_metadata" \notin DOMAIN Defaults
    BY <2>1, CodecsFit DEF ExtraField
  <2>3. DOMAIN view = DOMAIN ToDict[kind]
    BY <1>1, <1>2, <1>4, <2>1, <2>2 DEF KindFits
  <2>4. view.metadata = Stamped(Inside[objects[i].lists["extra"]])
    BY <1>1, <1>2, <1>4, <2>2 DEF KindFits
  <2>5. /\ view.metadata = [f \in DOMAIN _metadata_to_dict |-> view.metadata[f]]
        /\ view.metadata.extra = Inside[objects[i].lists["extra"]]
    BY <2>4, CodecsFit DEF Stamped
  <2>6. objects[i].lists["extra"] \in DOMAIN heap
    BY <1>1, <1>4, NamesFit DEF KindFits
  <2>7. AreEntries(DataOf(kind, view))
    BY <1>3, <2>2, <2>5, <2>6 DEF DataOf
  <2> QED BY <1>2, <2>3, <2>5, <2>7 DEF HasFields, view
<1>5. CASE ~HasBuilder
  <2>1. kind \notin DOMAIN Builds /\ Defaults = Frozens[kind].defaults /\ stamped = {}
        /\ Shared = Frozens[kind].shared
    BY <1>5 DEF HasBuilder, Defaults, Shared
  <2>2. DOMAIN view = DOMAIN ToDict[kind] /\ "metadata" \notin DOMAIN ToDict[kind]
    BY <1>1, <1>2, <1>5, <2>1, CodecsFit DEF KindFits
  <2>3. AreEntries(DataOf(kind, view))
    <3>1. CASE "value" \in DOMAIN ToDict[kind]
      <4>1. "value" \in Shared
        BY <2>1, <3>1, CodecsFit
      <4>2. view.value = Inside[lists["given"]]
        BY <1>1, <1>2, <2>1, <4>1 DEF KindFits, ObjectFits
      <4>3. lists["given"] \in DOMAIN heap
        BY NamesFit
      <4> QED BY <1>3, <2>2, <3>1, <4>2, <4>3 DEF DataOf
    <3>2. CASE "value" \notin DOMAIN ToDict[kind]
      BY <2>2, <3>2 DEF DataOf, AreEntries
    <3> QED BY <3>1, <3>2
  <2> QED BY <1>2, <2>2, <2>3 DEF HasFields, view
<1> QED BY <1>4, <1>5

\* An object has the fields that are written for it, all of them, so that what is loaded is
\* what was saved, as far as JSON can tell.
LEMMA InvRestores == BuilderInv => RestoredAsBuilt
<1> SUFFICES ASSUME BuilderInv, kind \in DOMAIN ToDict, NEW i \in DOMAIN objects,
                    NEW view, view = View(objects[i], Inside)
             PROVE  LET again == Restored(kind, view)
                        data == DataOf(kind, view)
                    IN /\ WithData(kind, again, data) = view
                       /\ ~Lossy(data) => again = view
                       /\ Restored(kind, again) = again
  BY DEF RestoredAsBuilt
<1> DEFINE data == DataOf(kind, view)
           json == AfterJson(data)
           again == WithData(kind, view, json)
<1>1. HasFields(kind, view) /\ AreEntries(data)
  BY ViewFits
<1>2. Restored(kind, view) = again
  BY <1>1, RestoredIsSame
<1>3. /\ WithData(kind, view, data) = view /\ HasFields(kind, again)
      /\ \A x, y : WithData(kind, WithData(kind, view, x), y) = WithData(kind, view, y)
  BY <1>1, DataInPlace
<1>4. AfterJson(json) = json /\ (~Lossy(data) => json = data)
  BY <1>1, JsonKeeps
<1>5. WithData(kind, again, AfterJson(DataOf(kind, again))) = again
  <2>1. CASE "metadata" \in DOMAIN ToDict[kind] \/ "value" \in DOMAIN ToDict[kind]
    <3>1. DataOf(kind, again) = json
      BY <1>1, <2>1, DataInPlace
    <3> QED BY <1>3, <1>4, <3>1
  <2>2. CASE ~("metadata" \in DOMAIN ToDict[kind] \/ "value" \in DOMAIN ToDict[kind])
    BY <2>2 DEF WithData
  <2> QED BY <2>1, <2>2
<1>6. Restored(kind, again) = again
  BY <1>3, <1>5, RestoredIsSame
<1> HIDE DEF data, json
<1> QED BY <1>2, <1>3, <1>4, <1>6 DEF data

\* What was built keeps its values and its entries, whatever is done to its builder or to
\* the list that its class was called with: builder, caller and objects share no list.
\* What is in an entry changes only when the caller changes a mutable object that it has
\* put there itself.  Objects are snapshots of a growing trace, have no item twice, and are
\* found after a save as they were before it, but for data that has no form in JSON, which
\* is found in the form it has; and the tables of defaults of all classes agree.
THEOREM BuiltStaysFrozen == BuilderSpec => BuiltIsFrozen
<1>1. BuilderInv => BuilderTypeOK /\ NoTwinItems /\ SnapshotsGrow /\ RestoredAsBuilt
  <2>1. BuilderInv => SnapshotsGrow
    BY DEF BuilderInv, IsSnapshot, SnapshotsGrow
  <2> QED BY <2>1, InvRestores DEF BuilderInv
<1> DEFINE Stays ==
        \A i \in DOMAIN objects :
            /\ objects'[i] = objects[i]
            /\ \A f \in Copied :
                   LET mine == objects[i].lists[f] IN
                   /\ heap'[mine] = heap[mine]
                   /\ \/ Inside'[mine] = Inside[mine]
                      \/ NestedChanges /\ Nested \in Range(heap[mine])
<1>2. BuilderInv /\ [BuilderNext]_builderVars => [Stays]_builderVars
  <2> SUFFICES ASSUME BuilderInv, BuilderNext PROVE Stays
    OBVIOUS
  <2>1. BuilderInv' /\ ObjectsKept /\ (NestedKept \/ NestedChanges) /\ kind' = kind
    BY BuilderStep, KindIsKept
  <2> QED BY <2>1, InsideStays DEF ObjectsKept
<1>3. BuilderSpec => ObjectsFrozen
  BY <1>2, BuilderInvHolds, PTL DEF BuilderSpec, ObjectsFrozen
<1> QED BY <1>1, <1>3, BuilderInvHolds, TablesHold, PTL DEF BuiltIsFrozen
=============================================================================
