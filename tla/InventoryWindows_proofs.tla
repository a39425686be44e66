------------------------ MODULE InventoryWindows_proofs ------------------------
(***************************************************************************)
(* For every set of windows, points of sale, directors and managers: the   *)
(* windows are well-typed, a stopped window lets nobody in but whom a      *)
(* director let in, and a point of sale reopened by hand is not cut again. *)
(* The argument is about the shapes of the scripts: which statement may    *)
(* follow which, whatever the others do in between.                        *)
(***************************************************************************)
EXTENDS InventoryWindows, TLAPS, SequenceTheorems, FiniteSetTheorems

\* The statements that give accesses.
Grants == {"ActivateAll", "GiveBack", "CreateAccess"}

\* The shape of every script: a window shut is revoked at once; accesses are given
\* back to all right after the window was opened, or first; those of one point of
\* sale only first.
Sound(s) ==
  /\ s \in Seq(Statement)
  /\ \A i \in 1..Len(s) :
       /\ s[i][1] = "Shut" => i < Len(s) /\ s[i + 1] = <<"RevokeAll", s[i][2]>>
       /\ s[i][1] = "ActivateAll" => i = 1 \/ s[i - 1] = <<"Open", s[i][2]>>
       /\ s[i][1] \in {"GiveBack", "CreateAccess"} => i = 1

\* An access is given straight away.
GrantFirst(s) == s # <<>> /\ s[1][1] \in Grants

\* A sound script stays sound when its first statement is done; an access is
\* given next only if that statement has opened its window, and a shut window is
\* revoked next.
LEMMA TailSound ==
  ASSUME NEW s, Sound(s), s # <<>>
  PROVE  /\ Sound(Tail(s))
         /\ GrantFirst(Tail(s)) =>
              Head(s) = <<"Open", Tail(s)[1][2]>> /\ Tail(s)[1][1] = "ActivateAll"
         /\ Head(s)[1] = "Shut" => Tail(s) # <<>> /\ Tail(s)[1] = <<"RevokeAll", Head(s)[2]>>
<1>1. /\ s \in Seq(Statement) /\ Tail(s) \in Seq(Statement) /\ Len(s) \in Nat \ {0}
      /\ Len(Tail(s)) = Len(s) - 1
      /\ \A i \in 1..Len(Tail(s)) : Tail(s)[i] = s[i + 1]
      /\ Head(s) = s[1]
  BY HeadTailProperties, EmptySeq, LenProperties DEF Sound
<1>2. Sound(Tail(s))
  <2>1. ASSUME NEW i \in 1..Len(Tail(s))
        PROVE  /\ Tail(s)[i][1] = "Shut" =>
                    i < Len(Tail(s)) /\ Tail(s)[i + 1] = <<"RevokeAll", Tail(s)[i][2]>>
               /\ Tail(s)[i][1] = "ActivateAll" => i = 1 \/ Tail(s)[i - 1] = <<"Open", Tail(s)[i][2]>>
               /\ Tail(s)[i][1] \in {"GiveBack", "CreateAccess"} => i = 1
    BY <1>1, <2>1 DEF Sound
  <2> QED BY <1>1, <2>1 DEF Sound
<1>3. GrantFirst(Tail(s)) =>
        Head(s) = <<"Open", Tail(s)[1][2]>> /\ Tail(s)[1][1] = "ActivateAll"
  <2> SUFFICES ASSUME GrantFirst(Tail(s))
               PROVE  Head(s) = <<"Open", Tail(s)[1][2]>> /\ Tail(s)[1][1] = "ActivateAll"
    OBVIOUS
  <2>1. 1 \in 1..Len(Tail(s)) /\ Tail(s)[1] = s[2]
    BY <1>1, EmptySeq DEF GrantFirst
  <2> QED BY <1>1, <2>1 DEF GrantFirst, Grants, Sound
<1>4. Head(s)[1] = "Shut" => Tail(s) # <<>> /\ Tail(s)[1] = <<"RevokeAll", Head(s)[2]>>
  <2> SUFFICES ASSUME s[1][1] = "Shut"
               PROVE  Tail(s) # <<>> /\ Tail(s)[1] = <<"RevokeAll", s[1][2]>>
    BY <1>1
  <2>1. 1 \in 1..Len(s)
    BY <1>1
  <2>2. 1 < Len(s) /\ s[1 + 1] = <<"RevokeAll", s[1][2]>>
    BY <2>1 DEF Sound
  <2>3. Len(Tail(s)) # 0 /\ Tail(s)[1] = s[1 + 1]
    BY <1>1, <2>2
  <2>4. Len(<<>>) = 0
    BY EmptySeq
  <2>5. Tail(s) # <<>>
    BY <2>3, <2>4
  <2> QED BY <2>2, <2>3, <2>5
<1> QED BY <1>2, <1>3, <1>4

\* Sound scripts one after the other, unless the second would have given an
\* access straight away.
LEMMA JoinSound ==
  ASSUME NEW s, NEW t, Sound(s), Sound(t), ~ GrantFirst(t)
  PROVE  Sound(s \o t)
<1>1. /\ s \in Seq(Statement) /\ t \in Seq(Statement) /\ s \o t \in Seq(Statement)
      /\ Len(s) \in Nat /\ Len(t) \in Nat /\ Len(s \o t) = Len(s) + Len(t)
      /\ \A i \in 1..(Len(s) + Len(t)) :
            (s \o t)[i] = IF i <= Len(s) THEN s[i] ELSE t[i - Len(s)]
  BY ConcatProperties, LenProperties DEF Sound
<1>2. ASSUME NEW i \in 1..Len(s \o t)
      PROVE  /\ (s \o t)[i][1] = "Shut" =>
                  i < Len(s \o t) /\ (s \o t)[i + 1] = <<"RevokeAll", (s \o t)[i][2]>>
             /\ (s \o t)[i][1] = "ActivateAll" => i = 1 \/ (s \o t)[i - 1] = <<"Open", (s \o t)[i][2]>>
             /\ (s \o t)[i][1] \in {"GiveBack", "CreateAccess"} => i = 1
  <2>1. CASE i <= Len(s)
    BY <1>1, <1>2, <2>1 DEF Sound
  <2>2. CASE i > Len(s)
    <3>1. /\ i - Len(s) \in 1..Len(t) /\ (s \o t)[i] = t[i - Len(s)]
          /\ t # <<>>
      BY <1>1, <1>2, <2>2, EmptySeq
    <3>2. t[1][1] \notin Grants
      BY <3>1 DEF GrantFirst
    <3>3. CASE i - Len(s) = 1
      BY <1>1, <1>2, <2>2, <3>1, <3>2, <3>3 DEF Sound, Grants
    <3>4. CASE i - Len(s) # 1
      <4>1. i - 1 \in 1..(Len(s) + Len(t)) /\ i - 1 > Len(s)
        BY <1>1, <1>2, <2>2, <3>1, <3>4
      <4>2. (s \o t)[i - 1] = t[(i - Len(s)) - 1]
        BY <1>1, <4>1
      <4>3. i < Len(s \o t) => (s \o t)[i + 1] = t[(i - Len(s)) + 1]
        BY <1>1, <1>2, <2>2
      <4>4. i - Len(s) < Len(t) => i < Len(s \o t)
        BY <1>1, <1>2
      <4> QED BY <3>1, <3>4, <4>2, <4>3, <4>4 DEF Sound
    <3> QED BY <3>3, <3>4
  <2> QED BY <1>1, <1>2, <2>1, <2>2
<1> QED BY <1>1, <1>2 DEF Sound

\* The shape of the cron's: a cut follows its claim, or comes first.
Claimed(s) ==
  \A i \in 1..Len(s) : s[i][1] = "Cut" => i = 1 \/ s[i - 1] = <<"ClaimSale", s[i][2], s[i][3]>>

\* It begins with a cut.
CutFirst(s) == s # <<>> /\ s[1][1] = "Cut"

\* The script of the cron, its first statement done: a cut comes next only after
\* its claim.
LEMMA TailClaimed ==
  ASSUME NEW s \in Seq(Statement), Claimed(s), s # <<>>
  PROVE  /\ Claimed(Tail(s))
         /\ CutFirst(Tail(s)) => Head(s) = <<"ClaimSale", Tail(s)[1][2], Tail(s)[1][3]>>
<1>1. /\ Len(s) \in Nat \ {0} /\ Len(Tail(s)) = Len(s) - 1
      /\ \A i \in 1..Len(Tail(s)) : Tail(s)[i] = s[i + 1]
      /\ Head(s) = s[1] /\ Tail(s) \in Seq(Statement)
  BY HeadTailProperties, EmptySeq, LenProperties
<1>2. Claimed(Tail(s))
  <2>1. ASSUME NEW i \in 1..Len(Tail(s)), Tail(s)[i][1] = "Cut"
        PROVE  i = 1 \/ Tail(s)[i - 1] = <<"ClaimSale", Tail(s)[i][2], Tail(s)[i][3]>>
    BY <1>1, <2>1 DEF Claimed
  <2> QED BY <2>1 DEF Claimed
<1>3. CutFirst(Tail(s)) => Head(s) = <<"ClaimSale", Tail(s)[1][2], Tail(s)[1][3]>>
  <2> SUFFICES ASSUME CutFirst(Tail(s))
               PROVE  Head(s) = <<"ClaimSale", Tail(s)[1][2], Tail(s)[1][3]>>
    OBVIOUS
  <2>1. 1 \in 1..Len(Tail(s)) /\ Tail(s)[1] = s[2]
    BY <1>1, EmptySeq DEF CutFirst
  <2> QED BY <1>1, <2>1 DEF CutFirst, Claimed
<1> QED BY <1>2, <1>3

\* Such scripts one after the other, unless the second begins with a cut.
LEMMA JoinClaimed ==
  ASSUME NEW s \in Seq(Statement), NEW t \in Seq(Statement), Claimed(s), Claimed(t), ~ CutFirst(t)
  PROVE  Claimed(s \o t)
<1>1. /\ Len(s) \in Nat /\ Len(t) \in Nat /\ Len(s \o t) = Len(s) + Len(t)
      /\ \A i \in 1..(Len(s) + Len(t)) :
            (s \o t)[i] = IF i <= Len(s) THEN s[i] ELSE t[i - Len(s)]
  BY ConcatProperties, LenProperties
<1>2. ASSUME NEW i \in 1..Len(s \o t), (s \o t)[i][1] = "Cut"
      PROVE  i = 1 \/ (s \o t)[i - 1] = <<"ClaimSale", (s \o t)[i][2], (s \o t)[i][3]>>
  <2>1. CASE i <= Len(s)
    BY <1>1, <1>2, <2>1 DEF Claimed
  <2>2. CASE i > Len(s)
    <3>1. /\ i - Len(s) \in 1..Len(t) /\ (s \o t)[i] = t[i - Len(s)]
          /\ t # <<>>
      BY <1>1, <1>2, <2>2, EmptySeq
    <3>2. i - Len(s) # 1
      BY <1>2, <3>1 DEF CutFirst
    <3>3. (s \o t)[i - 1] = t[(i - Len(s)) - 1]
      BY <1>1, <1>2, <2>2, <3>1, <3>2
    <3> QED BY <1>2, <3>1, <3>2, <3>3 DEF Claimed
  <2> QED BY <1>1, <1>2, <2>1, <2>2
<1> QED BY <1>2 DEF Claimed

\* The first statement of two scripts one after the other.
LEMMA FirstOfJoin ==
  ASSUME NEW s \in Seq(Statement), NEW t \in Seq(Statement)
  PROVE  /\ s # <<>> => s \o t # <<>> /\ (s \o t)[1] = s[1]
         /\ s = <<>> => s \o t = t
<1>1. /\ s \o t \in Seq(Statement) /\ Len(s) \in Nat /\ Len(t) \in Nat
      /\ Len(s \o t) = Len(s) + Len(t)
      /\ \A i \in 1..(Len(s) + Len(t)) :
            (s \o t)[i] = IF i <= Len(s) THEN s[i] ELSE t[i - Len(s)]
  BY ConcatProperties, LenProperties
<1>2. Len(<<>>) = 0 /\ (s # <<>> => Len(s) \in Nat \ {0})
  BY EmptySeq
<1>3. s # <<>> => s \o t # <<>> /\ (s \o t)[1] = s[1]
  <2> SUFFICES ASSUME s # <<>> PROVE s \o t # <<>> /\ (s \o t)[1] = s[1]
    OBVIOUS
  <2>1. Len(s \o t) # 0 /\ (s \o t)[1] = s[1]
    BY <1>1, <1>2
  <2> QED BY <1>2, <2>1
<1>4. s = <<>> => s \o t = t
  BY ConcatEmptySeq
<1> QED BY <1>3, <1>4

-------------------------------------------------------------------------------
(* The scripts the operations lead to.                                         *)

\* Nothing is given, nothing is shut.
Plain(s) ==
  /\ s \in Seq(Statement)
  /\ \A i \in 1..Len(s) : s[i][1] \notin Grants \cup {"Shut"}

\* Nothing is cut.
NoCut(s) == \A i \in 1..Len(s) : s[i][1] # "Cut"

\* A plain script is sound, and gives nothing.
LEMMA PlainSound ==
  ASSUME NEW s, Plain(s)
  PROVE  Sound(s) /\ ~ GrantFirst(s)
<1>1. s # <<>> => 1 \in 1..Len(s)
  BY EmptySeq DEF Plain
<1>2. Sound(s)
  BY DEF Plain, Sound, Grants
<1>3. ~ GrantFirst(s)
  BY <1>1 DEF Plain, GrantFirst
<1> QED BY <1>2, <1>3

\* A script without a cut needs no claim.
LEMMA NoCutClaimed ==
  ASSUME NEW s \in Seq(Statement), NoCut(s)
  PROVE  Claimed(s) /\ ~ CutFirst(s)
<1>1. s # <<>> => 1 \in 1..Len(s)
  BY EmptySeq
<1>2. ~ CutFirst(s)
  BY <1>1 DEF NoCut, CutFirst
<1> QED BY <1>2 DEF NoCut, Claimed

\* Plain scripts, and those without a cut, one after the other.
LEMMA JoinPlain ==
  ASSUME NEW s, NEW t, Plain(s), Plain(t)
  PROVE  Plain(s \o t) /\ (NoCut(s) /\ NoCut(t) => NoCut(s \o t))
<1>1. /\ s \o t \in Seq(Statement) /\ Len(s) \in Nat /\ Len(t) \in Nat
      /\ Len(s \o t) = Len(s) + Len(t)
      /\ \A i \in 1..(Len(s) + Len(t)) :
            (s \o t)[i] = IF i <= Len(s) THEN s[i] ELSE t[i - Len(s)]
  BY ConcatProperties, LenProperties DEF Plain
<1>2. ASSUME NEW i \in 1..Len(s \o t)
      PROVE  (\E j \in 1..Len(s) : (s \o t)[i] = s[j]) \/ (\E j \in 1..Len(t) : (s \o t)[i] = t[j])
  <2>1. CASE i <= Len(s)
    BY <1>1, <1>2, <2>1
  <2>2. CASE i > Len(s)
    <3>1. i - Len(s) \in 1..Len(t) /\ (s \o t)[i] = t[i - Len(s)]
      BY <1>1, <1>2, <2>2
    <3> QED BY <3>1
  <2> QED BY <1>1, <1>2, <2>1, <2>2
<1>3. Plain(s \o t)
  BY <1>1, <1>2 DEF Plain
<1>4. NoCut(s) /\ NoCut(t) => NoCut(s \o t)
  BY <1>2 DEF NoCut
<1> QED BY <1>3, <1>4

\* A script that is over has every shape.
LEMMA EmptyPlain == Plain(<<>>) /\ NoCut(<<>>) /\ Sound(<<>>) /\ Claimed(<<>>)
<1>1. <<>> \in Seq(Statement) /\ Len(<<>>) = 0
  BY EmptySeq
<1> QED BY <1>1 DEF Plain, NoCut, Sound, Claimed

\* A single statement.
LEMMA OneStatement ==
  ASSUME NEW x \in Statement
  PROVE  /\ <<x>> \in Seq(Statement) /\ <<x>> # <<>> /\ <<x>>[1] = x
         /\ x[1] # "Shut" => Sound(<<x>>)
         /\ Claimed(<<x>>)
         /\ x[1] \notin Grants \cup {"Shut"} => Plain(<<x>>)
         /\ x[1] # "Cut" => NoCut(<<x>>)
<1>1. <<x>> \in Seq(Statement) /\ Len(<<x>>) = 1 /\ <<x>>[1] = x /\ <<x>> # <<>>
  OBVIOUS
<1>2. \A i \in 1..Len(<<x>>) : i = 1
  BY <1>1
<1>3. x[1] # "Shut" => Sound(<<x>>)
  BY <1>1, <1>2 DEF Sound
<1>4. Claimed(<<x>>)
  BY <1>1, <1>2 DEF Claimed
<1>5. x[1] \notin Grants \cup {"Shut"} => Plain(<<x>>)
  BY <1>1, <1>2 DEF Plain
<1>6. x[1] # "Cut" => NoCut(<<x>>)
  BY <1>1, <1>2 DEF NoCut
<1> QED BY <1>1, <1>3, <1>4, <1>5, <1>6

\* The statements on a window.
LEMMA StatementsOnWindows ==
  ASSUME NEW w \in Window
  PROVE  \A n \in OfWindow : <<n, w>> \in Statement
BY DEF Statement

\* The statements on a point of sale.
LEMMA StatementsOnSpots ==
  ASSUME NEW w \in Window, NEW p \in Element
  PROVE  \A n \in OfSpot : <<n, w, p>> \in Statement
BY DEF Statement

\* A set of windows, which is finite, can be listed.
LEMMA ListedOnce ==
  ASSUME NEW ws \in SUBSET Window
  PROVE  /\ Cardinality(ws) \in Nat
         /\ SetToSeq(ws) \in [1..Cardinality(ws) -> ws]
<1>1. IsFiniteSet(ws)
  BY WindowsAssumption, FS_Subset
<1>2. Cardinality(ws) \in Nat /\ ExistsBijection(1..Cardinality(ws), ws)
  BY <1>1, FS_CardinalityType
<1>3. \E f \in [1..Cardinality(ws) -> ws] : IsInjective(f)
  BY <1>2 DEF ExistsBijection, Bijection, Injection
<1>4. SetToSeq(ws) \in [1..Cardinality(ws) -> ws]
  BY <1>3 DEF SetToSeq
<1> QED BY <1>2, <1>4

\* closeInventoryWindows, one window after the other.
LEMMA ClosedInTurn ==
  ASSUME NEW ws \in SUBSET Window
  PROVE  /\ Plain(InTurn(ws)) /\ NoCut(InTurn(ws))
         /\ \A i \in 1..Len(InTurn(ws)) : InTurn(ws)[i][1] = "Close"
<1> DEFINE n == Cardinality(ws)
           f == SetToSeq(ws)
           s == InTurn(ws)
<1>1. n \in Nat /\ f \in [1..n -> ws]
  BY ListedOnce
<1>2. s = [i \in 1..n |-> <<"Close", f[i]>>]
  BY DEF InTurn
<1>3. \A i \in 1..n : <<"Close", f[i]>> \in Statement
  BY <1>1, StatementsOnWindows DEF OfWindow
<1>4. s \in Seq(Statement) /\ Len(s) = n
  <2> HIDE DEF n, f, s
  <2>1. s \in [1..n -> Statement]
    BY <1>2, <1>3
  <2> QED BY <1>1, <2>1
<1>5. \A i \in 1..n : s[i][1] = "Close"
  BY <1>2
<1> QED BY <1>4, <1>5 DEF Plain, NoCut, Grants

\* startElement: the accesses to the other phase are cut, one after the other.
LEMMA CutInTurn ==
  ASSUME NEW w \in Window, NEW p \in Element
  PROVE  Plain(CuttingOther(w, p))
<1> DEFINE others == SetToSeq(Other(w))
           n == Cardinality(Other(w))
           s == CuttingOther(w, p)
<1>1. n \in Nat /\ others \in [1..n -> Window]
  BY ListedOnce DEF Other
<1>2. Len(others) = n
  <2> HIDE DEF n, others
  <2> QED BY <1>1
<1>3. s = [i \in 1..n |-> <<"Cut", others[i], p>>]
  BY <1>2 DEF CuttingOther
<1>4. \A i \in 1..n : <<"Cut", others[i], p>> \in Statement
  BY <1>1, StatementsOnSpots DEF OfSpot
<1>5. s \in Seq(Statement) /\ Len(s) = n
  <2> HIDE DEF n, others, s
  <2>1. s \in [1..n -> Statement]
    BY <1>3, <1>4
  <2> QED BY <1>1, <2>1
<1>6. \A i \in 1..n : s[i][1] = "Cut"
  BY <1>3
<1> QED BY <1>5, <1>6 DEF Plain, Grants

\* Two statements.
LEMMA TwoStatements ==
  ASSUME NEW x \in Statement, NEW y \in Statement
  PROVE  /\ <<x, y>> \in Seq(Statement) /\ Len(<<x, y>>) = 2 /\ <<x, y>> # <<>>
         /\ <<x, y>>[1] = x /\ <<x, y>>[2] = y
         /\ \A i \in 1..Len(<<x, y>>) : i = 1 \/ i = 2
OBVIOUS

\* Three statements.
LEMMA ThreeStatements ==
  ASSUME NEW x \in Statement, NEW y \in Statement, NEW z \in Statement
  PROVE  /\ <<x, y, z>> \in Seq(Statement) /\ Len(<<x, y, z>>) = 3 /\ <<x, y, z>> # <<>>
         /\ <<x, y, z>>[1] = x /\ <<x, y, z>>[2] = y /\ <<x, y, z>>[3] = z
         /\ \A i \in 1..Len(<<x, y, z>>) : i = 1 \/ i = 2 \/ i = 3
OBVIOUS

\* A window is opened, then the accesses are given back.
LEMMA OpeningSound ==
  ASSUME NEW w \in Window
  PROVE  /\ Sound(Opening(w)) /\ NoCut(Opening(w))
         /\ Opening(w) # <<>> /\ Opening(w)[1] = <<"Supersede", w>>
<1> DEFINE s == Opening(w)
<1>1. <<"Supersede", w>> \in Statement /\ <<"Open", w>> \in Statement /\ <<"ActivateAll", w>> \in Statement
  BY StatementsOnWindows DEF OfWindow
<1>2. /\ s \in Seq(Statement) /\ Len(s) = 3 /\ s # <<>>
      /\ s[1] = <<"Supersede", w>> /\ s[2] = <<"Open", w>> /\ s[3] = <<"ActivateAll", w>>
      /\ \A i \in 1..Len(s) : i = 1 \/ i = 2 \/ i = 3
  BY <1>1, ThreeStatements DEF Opening
<1> HIDE DEF s
<1>3. \A i \in 1..Len(s) :
         /\ s[i][1] # "Shut" /\ s[i][1] \notin {"GiveBack", "CreateAccess"} /\ s[i][1] # "Cut"
         /\ s[i][1] = "ActivateAll" => i = 3
  BY <1>2
<1>4. Sound(s) /\ NoCut(s)
  BY <1>2, <1>3 DEF Sound, NoCut
<1> QED BY <1>2, <1>4 DEF s

\* A window is shut, then its accesses are revoked: no statement of the same
\* script comes between.
LEMMA ClosingSound ==
  ASSUME NEW w \in Window
  PROVE  /\ Sound(Closing(w)) /\ NoCut(Closing(w))
         /\ Closing(w) # <<>> /\ Closing(w)[1] = <<"Shut", w>>
<1> DEFINE s == Closing(w)
<1>1. <<"Shut", w>> \in Statement /\ <<"RevokeAll", w>> \in Statement
  BY StatementsOnWindows DEF OfWindow
<1>2. /\ s \in Seq(Statement) /\ Len(s) = 2 /\ s # <<>>
      /\ s[1] = <<"Shut", w>> /\ s[2] = <<"RevokeAll", w>>
      /\ \A i \in 1..Len(s) : i = 1 \/ i = 2
  BY <1>1, TwoStatements DEF Closing
<1> HIDE DEF s
<1>3. Sound(s) /\ NoCut(s)
  BY <1>2 DEF Sound, NoCut
<1> QED BY <1>2, <1>3 DEF s

\* startWindow: the other phase is stopped, then this one opened.
LEMMA StartSound ==
  ASSUME NEW w \in Window
  PROVE  LET s == StoppingOther(w) \o Opening(w)
         IN  Sound(s) /\ Claimed(s) /\ ~ GrantFirst(s) /\ ~ CutFirst(s) /\ s # <<>>
<1> DEFINE a == StoppingOther(w)
           b == Opening(w)
<1>1. Plain(a) /\ NoCut(a) /\ a \in Seq(Statement)
  <2>1. {v \in Other(w) : window[v] = "open"} \in SUBSET Window
    BY DEF Other
  <2> QED BY <2>1, ClosedInTurn DEF StoppingOther, Plain
<1>2. Sound(b) /\ NoCut(b) /\ b \in Seq(Statement) /\ b # <<>> /\ b[1] = <<"Supersede", w>>
  BY OpeningSound DEF Sound
<1> HIDE DEF a, b
<1>3. ~ GrantFirst(b) /\ ~ CutFirst(b)
  BY <1>2 DEF GrantFirst, CutFirst, Grants
<1>4. Sound(a) /\ ~ GrantFirst(a) /\ Claimed(a) /\ ~ CutFirst(a) /\ Claimed(b)
  BY <1>1, <1>2, PlainSound, NoCutClaimed
<1>5. Sound(a \o b) /\ Claimed(a \o b)
  BY <1>1, <1>2, <1>3, <1>4, JoinSound, JoinClaimed
<1>6. CASE a = <<>>
  <2>1. a \o b = b
    BY <1>1, <1>2, <1>6, FirstOfJoin
  <2> QED BY <1>2, <1>3, <1>5, <2>1 DEF a, b
<1>7. CASE a # <<>>
  <2>1. a \o b # <<>> /\ (a \o b)[1] = a[1]
    BY <1>1, <1>2, <1>7, FirstOfJoin
  <2>2. a[1][1] = "Close"
    <3>1. 1 \in 1..Len(a)
      BY <1>1, <1>7, EmptySeq
    <3>2. {v \in Other(w) : window[v] = "open"} \in SUBSET Window
      BY DEF Other
    <3>3. \A i \in 1..Len(a) : a[i][1] = "Close"
      BY <3>2, ClosedInTurn DEF a, StoppingOther
    <3> QED BY <3>1, <3>3
  <2>3. ~ GrantFirst(a \o b) /\ ~ CutFirst(a \o b)
    BY <2>1, <2>2 DEF GrantFirst, CutFirst, Grants
  <2> QED BY <1>5, <2>1, <2>3 DEF a, b
<1> QED BY <1>6, <1>7

\* The same by the cron, behind its claim.
LEMMA StartPostSound ==
  ASSUME NEW w \in Window
  PROVE  LET s == <<<<"ClaimStart", w>>>> \o Opening(w)
         IN  Sound(s) /\ Claimed(s) /\ s # <<>> /\ s[1] = <<"ClaimStart", w>>
<1> DEFINE a == <<<<"ClaimStart", w>>>>
           b == Opening(w)
<1>1. <<"ClaimStart", w>> \in Statement
  BY StatementsOnWindows DEF OfWindow
<1>2. a \in Seq(Statement) /\ a # <<>> /\ a[1] = <<"ClaimStart", w>> /\ Sound(a) /\ Claimed(a)
  BY <1>1, OneStatement
<1>3. Sound(b) /\ Claimed(b) /\ b \in Seq(Statement) /\ b # <<>> /\ b[1] = <<"Supersede", w>>
  BY OpeningSound, NoCutClaimed DEF Sound
<1> HIDE DEF a, b
<1>4. ~ GrantFirst(b) /\ ~ CutFirst(b)
  BY <1>3 DEF GrantFirst, CutFirst, Grants
<1>5. Sound(a \o b) /\ Claimed(a \o b)
  BY <1>2, <1>3, <1>4, JoinSound, JoinClaimed
<1>6. a \o b # <<>> /\ (a \o b)[1] = a[1]
  BY <1>2, <1>3, FirstOfJoin
<1> QED BY <1>2, <1>5, <1>6 DEF a, b

\* startElement and stopElement give nothing without looking.
LEMMA ElementScripts ==
  ASSUME NEW w \in Window, NEW p \in Element
  PROVE  /\ Plain(CuttingOther(w, p) \o <<<<"Allow", w, p>>>>
                    \o (IF w[2] = "pre" THEN <<<<"Mark", w, p>>>> ELSE <<>>))
         /\ Plain(<<<<"Cut", w, p>>>> \o (IF w[2] = "pre" THEN <<<<"RegainPost", w, p>>>> ELSE <<>>))
<1>1. \A n \in {"Allow", "Mark", "Cut", "RegainPost"} : <<n, w, p>> \in Statement
  BY StatementsOnSpots DEF OfSpot
<1>2. /\ Plain(<<<<"Allow", w, p>>>>) /\ Plain(<<<<"Mark", w, p>>>>)
      /\ Plain(<<<<"Cut", w, p>>>>) /\ Plain(<<<<"RegainPost", w, p>>>>)
  BY <1>1, OneStatement DEF Grants
<1>3. /\ Plain(IF w[2] = "pre" THEN <<<<"Mark", w, p>>>> ELSE <<>>)
      /\ Plain(IF w[2] = "pre" THEN <<<<"RegainPost", w, p>>>> ELSE <<>>)
  BY <1>2, EmptyPlain
<1>4. Plain(CuttingOther(w, p) \o <<<<"Allow", w, p>>>>)
  BY <1>2, CutInTurn, JoinPlain
<1> QED BY <1>2, <1>3, <1>4, JoinPlain

\* The cron on a delivery and on a sale: the claim comes just before the cut.
LEMMA CycleScripts ==
  ASSUME NEW w \in Window
  PROVE  /\ LET s == <<<<"ClaimDelivery", w>>, <<"StartNext", w>>, <<"StopFresh", w>>>>
            IN  Plain(s) /\ Claimed(s) /\ ~ CutFirst(s)
         /\ \A p \in Element :
              LET s == <<<<"ClaimSale", w, p>>, <<"Cut", w, p>>, <<"RegainPost", w, p>>>>
              IN  Plain(s) /\ Claimed(s) /\ ~ CutFirst(s)
<1>1. LET s == <<<<"ClaimDelivery", w>>, <<"StartNext", w>>, <<"StopFresh", w>>>>
      IN  Plain(s) /\ Claimed(s) /\ ~ CutFirst(s)
  <2> DEFINE s == <<<<"ClaimDelivery", w>>, <<"StartNext", w>>, <<"StopFresh", w>>>>
  <2>1. \A n \in {"ClaimDelivery", "StartNext", "StopFresh"} : <<n, w>> \in Statement
    BY StatementsOnWindows DEF OfWindow
  <2>2. /\ s \in Seq(Statement)
        /\ s[1] = <<"ClaimDelivery", w>> /\ s[2] = <<"StartNext", w>> /\ s[3] = <<"StopFresh", w>>
        /\ \A i \in 1..Len(s) : i = 1 \/ i = 2 \/ i = 3
    BY <2>1, ThreeStatements
  <2> HIDE DEF s
  <2>3. Plain(s) /\ Claimed(s) /\ ~ CutFirst(s)
    BY <2>2 DEF Plain, Claimed, CutFirst, Grants
  <2> QED BY <2>3 DEF s
<1>2. ASSUME NEW p \in Element
      PROVE  LET s == <<<<"ClaimSale", w, p>>, <<"Cut", w, p>>, <<"RegainPost", w, p>>>>
             IN  Plain(s) /\ Claimed(s) /\ ~ CutFirst(s)
  <2> DEFINE s == <<<<"ClaimSale", w, p>>, <<"Cut", w, p>>, <<"RegainPost", w, p>>>>
  <2>1. \A n \in {"ClaimSale", "Cut", "RegainPost"} : <<n, w, p>> \in Statement
    BY StatementsOnSpots DEF OfSpot
  <2>2. /\ s \in Seq(Statement)
        /\ s[1] = <<"ClaimSale", w, p>> /\ s[2] = <<"Cut", w, p>> /\ s[3] = <<"RegainPost", w, p>>
        /\ \A i \in 1..Len(s) : i = 1 \/ i = 2 \/ i = 3
    BY <2>1, ThreeStatements
  <2> HIDE DEF s
  <2>3. Plain(s) /\ Claimed(s) /\ ~ CutFirst(s)
    BY <2>2 DEF Plain, Claimed, CutFirst, Grants
  <2> QED BY <2>3 DEF s
<1> QED BY <1>1, <1>2

\* createOrReopenWindow.
LEMMA ReopenScript ==
  ASSUME NEW w \in Window
  PROVE  Plain(<<<<"Supersede", w>>, <<"Open", w>>>>)
<1> DEFINE s == <<<<"Supersede", w>>, <<"Open", w>>>>
<1>1. <<"Supersede", w>> \in Statement /\ <<"Open", w>> \in Statement
  BY StatementsOnWindows DEF OfWindow
<1>2. /\ s \in Seq(Statement)
      /\ s[1] = <<"Supersede", w>> /\ s[2] = <<"Open", w>>
      /\ \A i \in 1..Len(s) : i = 1 \/ i = 2
  BY <1>1, TwoStatements
<1> HIDE DEF s
<1>3. Plain(s)
  BY <1>2 DEF Plain, Grants
<1> QED BY <1>3 DEF s

-------------------------------------------------------------------------------
(* What a turn does to the scripts.                                            *)

\* Every script has its shape.
ScriptInv ==
  /\ script \in [Actor -> Seq(Statement)]
  /\ \A a \in Actor : Sound(script[a])
  /\ Claimed(script[Cycle])

\* The scripts of the others stay.
Others(a) == \A b \in Actor \ {a} : script'[b] = script[b]

\* Nobody else has another statement ahead.
LEMMA OthersAhead ==
  ASSUME NEW a \in Actor, NEW b \in Actor, Others(a), b # a
  PROVE  Ahead(b)' = Ahead(b) /\ \A w : Gives(b, w)' <=> Gives(b, w)
BY DEF Others, Ahead, Idle, Gives

\* One script is replaced by a sound one.
LEMMA Rewritten ==
  ASSUME ScriptInv, NEW a \in Actor, NEW s, Sound(s), a = Cycle => Claimed(s),
         script' = [script EXCEPT ![a] = s]
  PROVE  ScriptInv' /\ Others(a) /\ script'[a] = s
<1>1. s \in Seq(Statement) /\ Cycle \in Actor
  BY DEF Sound, Actor
<1>2. script' \in [Actor -> Seq(Statement)] /\ script'[a] = s /\ Others(a)
  BY <1>1 DEF ScriptInv, Others
<1>3. \A b \in Actor : Sound(script'[b])
  BY <1>2 DEF ScriptInv, Others
<1>4. Claimed(script'[Cycle])
  BY <1>1, <1>2 DEF ScriptInv, Others
<1> QED BY <1>2, <1>3, <1>4 DEF ScriptInv

\* What is ahead is the first statement left.
LEMMA AheadIsFirst ==
  ASSUME NEW a \in Actor, script'[a] \in Seq(Statement)
  PROVE  /\ script'[a] # <<>> => Ahead(a)' = script'[a][1]
         /\ script'[a] = <<>> => Ahead(a)' = <<"none">>
BY DEF Ahead, Idle

\* An operation begins: what is ahead is the first statement it leads to.
LEMMA AfterBegin ==
  ASSUME ScriptInv, NEW a \in Actor, Idle(a), NEW s, Begin(a, s), Sound(s), a = Cycle => Claimed(s)
  PROVE  /\ ScriptInv' /\ Others(a)
         /\ Ahead(a)[1] = "none"
         /\ \A w : Gives(a, w)' => GrantFirst(s) /\ s[1][2] = w
         /\ \A w, p : Ahead(a)' = <<"Cut", w, p>> => CutFirst(s)
<1>1. ScriptInv' /\ Others(a) /\ script'[a] = s
  BY Rewritten DEF Begin
<1>2. Ahead(a)[1] = "none"
  BY DEF Ahead
<1>3. (s # <<>> /\ Ahead(a)' = s[1]) \/ Ahead(a)' = <<"none">>
  BY <1>1, AheadIsFirst DEF Sound
<1>4. \A w : Gives(a, w)' => GrantFirst(s) /\ s[1][2] = w
  BY <1>3 DEF Gives, GrantFirst, Grants
<1>5. \A w, p : Ahead(a)' = <<"Cut", w, p>> => CutFirst(s)
  BY <1>3 DEF CutFirst
<1> QED BY <1>1, <1>2, <1>4, <1>5

\* A statement is done: an access is given next only in a window just opened, a
\* window just shut is revoked next, and the cron cuts next only what it has just
\* claimed.
LEMMA AfterGoes ==
  ASSUME ScriptInv, NEW a \in Actor, ~ Idle(a), Goes(a)
  PROVE  /\ ScriptInv' /\ Others(a)
         /\ \A w : Gives(a, w)' => Ahead(a) = <<"Open", w>>
         /\ \A w : Ahead(a) = <<"Shut", w>> => Ahead(a)' = <<"RevokeAll", w>>
         /\ \A w, p : a = Cycle /\ Ahead(a)' = <<"Cut", w, p>> => Ahead(a) = <<"ClaimSale", w, p>>
<1> DEFINE s == script[a]
           t == Tail(s)
<1>1. s \in Seq(Statement) /\ Sound(s) /\ s # <<>> /\ (a = Cycle => Claimed(s)) /\ Ahead(a) = Head(s)
  BY DEF ScriptInv, Idle, Ahead
<1>2. t \in Seq(Statement) /\ <<>> \o t = t
  BY <1>1, HeadTailProperties, ConcatEmptySeq
<1>3. script' = [script EXCEPT ![a] = t]
  BY <1>2 DEF Goes, Then
<1> HIDE DEF s, t
<1>4. /\ Sound(t)
      /\ GrantFirst(t) => Head(s) = <<"Open", t[1][2]>> /\ t[1][1] = "ActivateAll"
      /\ Head(s)[1] = "Shut" => t # <<>> /\ t[1] = <<"RevokeAll", Head(s)[2]>>
  BY <1>1, TailSound DEF t
<1>5. a = Cycle => Claimed(t) /\ (CutFirst(t) => Head(s) = <<"ClaimSale", t[1][2], t[1][3]>>)
  BY <1>1, TailClaimed DEF t
<1>6. ScriptInv' /\ Others(a) /\ script'[a] = t
  BY <1>3, <1>4, <1>5, Rewritten
<1>7. /\ t # <<>> => Ahead(a)' = t[1]
      /\ t = <<>> => Ahead(a)' = <<"none">>
  BY <1>2, <1>6, AheadIsFirst
<1>8. ASSUME NEW w, Gives(a, w)' PROVE Ahead(a) = <<"Open", w>>
  <2>1. t # <<>> /\ t[1][1] \in Grants /\ t[1][2] = w
    BY <1>7, <1>8 DEF Gives, Grants
  <2> QED BY <1>1, <1>4, <2>1 DEF GrantFirst
<1>9. ASSUME NEW w, Ahead(a) = <<"Shut", w>> PROVE Ahead(a)' = <<"RevokeAll", w>>
  BY <1>1, <1>4, <1>7, <1>9
<1>10. ASSUME NEW w, NEW p, a = Cycle, Ahead(a)' = <<"Cut", w, p>>
       PROVE  Ahead(a) = <<"ClaimSale", w, p>>
  <2>1. CutFirst(t) /\ t[1] = <<"Cut", w, p>>
    BY <1>7, <1>10 DEF CutFirst
  <2> QED BY <1>1, <1>5, <1>10, <2>1
<1> QED BY <1>6, <1>8, <1>9, <1>10

\* A statement puts others before the rest of the script.
LEMMA AfterThen ==
  ASSUME ScriptInv, NEW a \in Actor, ~ Idle(a), NEW u, Then(a, u), Sound(u), u # <<>>,
         a = Cycle => Claimed(u), Ahead(a)[1] \notin {"Open", "ClaimSale"}
  PROVE  ScriptInv' /\ Others(a) /\ Ahead(a)' = u[1]
<1> DEFINE s == script[a]
           t == Tail(s)
<1>1. s \in Seq(Statement) /\ Sound(s) /\ s # <<>> /\ (a = Cycle => Claimed(s)) /\ Ahead(a) = Head(s)
  BY DEF ScriptInv, Idle, Ahead
<1>2. script' = [script EXCEPT ![a] = u \o t]
  BY DEF Then
<1> HIDE DEF s, t
<1>3. Sound(t) /\ ~ GrantFirst(t)
  BY <1>1, TailSound DEF t
<1>4. a = Cycle => Claimed(t) /\ ~ CutFirst(t)
  BY <1>1, TailClaimed DEF t
<1>5. u \in Seq(Statement) /\ t \in Seq(Statement)
  BY <1>3 DEF Sound
<1>6. Sound(u \o t) /\ u \o t # <<>> /\ (u \o t)[1] = u[1]
  BY <1>3, <1>5, JoinSound, FirstOfJoin
<1>7. a = Cycle => Claimed(u \o t)
  BY <1>4, <1>5, JoinClaimed
<1>8. ScriptInv' /\ Others(a) /\ script'[a] = u \o t
  BY <1>2, <1>6, <1>7, Rewritten
<1>9. Ahead(a)' = u[1]
  BY <1>6, <1>8, AheadIsFirst DEF Sound
<1> QED BY <1>8, <1>9

\* A statement refused ends its script.
LEMMA AfterThrow ==
  ASSUME ScriptInv, NEW a \in Actor, Throws(a)
  PROVE  ScriptInv' /\ Others(a) /\ Ahead(a)' = <<"none">>
<1>1. ScriptInv' /\ Others(a) /\ script'[a] = <<>>
  BY Rewritten, EmptyPlain DEF Throws
<1> QED BY <1>1, AheadIsFirst, EmptySeq

-------------------------------------------------------------------------------
(* The inductive invariant.                                                    *)

\* Somebody revokes the accesses of w next.
Revoking(w) == \E b \in Actor : Ahead(b) = <<"RevokeAll", w>>

\* Nobody is in w by mistake for long: it is open, or somebody is about to revoke
\* its accesses, or it is one of the exceptions.
Guarded(w) == window[w] = "open" \/ w \in torn \/ Revoking(w)

\* Accesses are given in guarded windows only.
Granting == \A a \in Actor, w \in Window : Gives(a, w) => Guarded(w)

\* Whoever is in is in a guarded window, or was let in by hand.
Covered ==
  \A w \in Window, p \in Element :
    access[w][p] = "active" => Guarded(w) \/ <<w, p>> \in byHand

\* What a hand has settled has its marker, and is not about to be cut.
SettledInv ==
  \A s \in settled :
    <<"sale", s[1], s[2]>> \in marker /\ Ahead(Cycle) # <<"Cut", s[1], s[2]>>

\* The types of all that is not a script.
RowsOK ==
  /\ clock \in 0..3 /\ sold \subseteq Element /\ delivered \in BOOLEAN
  /\ window \in [Window -> {"closed", "open"}] /\ OneOpenPerPhase
  /\ access \in [Window -> [Element -> {"none", "active", "revoked"}]]
  /\ marker \subseteq ({"start", "delivery"} \X Window) \cup ({"sale"} \X Window \X Element)
  /\ byHand \subseteq Spot /\ torn \subseteq Window /\ settled \subseteq Spot
  /\ ops \in 0..MaxOps /\ faults \in 0..MaxFaults

\* All of it.
IInv == RowsOK /\ ScriptInv /\ Granting /\ Covered /\ SettledInv

\* The parts of the invariant give the types.
LEMMA Typed ==
  ASSUME RowsOK, ScriptInv
  PROVE  TypeOK
<1>1. ASSUME NEW a \in Actor PROVE ToSet(script[a]) \subseteq Statement
  <2>1. script[a] \in Seq(Statement)
    BY DEF ScriptInv
  <2>2. DOMAIN script[a] = 1..Len(script[a]) /\ \A i \in 1..Len(script[a]) : script[a][i] \in Statement
    BY <2>1, LenProperties, ElementOfSeq
  <2> QED BY <2>2 DEF ToSet
<1> QED BY <1>1 DEF TypeOK, RowsOK

\* What is ahead is a statement.
LEMMA AheadTyped ==
  ASSUME ScriptInv, NEW a \in Actor
  PROVE  /\ ~ Idle(a) => Ahead(a) \in Statement
         /\ Ahead(a)[1] # "none" => ~ Idle(a)
<1>1. ~ Idle(a) => Ahead(a) \in Statement
  BY HeadTailProperties DEF Ahead, Idle, ScriptInv
<1>2. Ahead(a)[1] # "none" => ~ Idle(a)
  BY DEF Ahead
<1> QED BY <1>1, <1>2

\* What it is about is a window.
LEMMA OnWindow ==
  ASSUME ScriptInv, NEW a \in Actor, NEW n \in OfWindow, NEW w, Ahead(a) = <<n, w>>
  PROVE  w \in Window /\ ~ Idle(a)
<1>1. ~ Idle(a) /\ <<n, w>> \in Statement
  BY AheadTyped DEF OfWindow
<1>2. n \notin OfSpot
  BY DEF OfWindow, OfSpot
<1> QED BY <1>1, <1>2 DEF Statement

\* What it is about is a point of sale of a window.
LEMMA OnSpot ==
  ASSUME ScriptInv, NEW a \in Actor, NEW n \in OfSpot, NEW w, NEW p, Ahead(a) = <<n, w, p>>
  PROVE  w \in Window /\ p \in Element /\ ~ Idle(a)
<1>1. ~ Idle(a) /\ <<n, w, p>> \in Statement
  BY AheadTyped DEF OfSpot
<1>2. n \notin OfWindow
  BY DEF OfWindow, OfSpot
<1> QED BY <1>1, <1>2 DEF Statement

\* A window stays guarded, unless it is shut by somebody who does not revoke
\* next, or revoked.
LEMMA GuardKept ==
  ASSUME NEW a \in Actor, Others(a), NEW v \in Window, Guarded(v),
         window[v] = "open" => window'[v] = "open" \/ Ahead(a)' = <<"RevokeAll", v>>,
         v \in torn => v \in torn',
         Ahead(a) = <<"RevokeAll", v>> => v \in torn'
  PROVE  Guarded(v)'
<1>1. CASE window[v] = "open" \/ v \in torn
  BY <1>1 DEF Guarded, Revoking
<1>2. CASE Revoking(v)
  <2>1. PICK b \in Actor : Ahead(b) = <<"RevokeAll", v>>
    BY <1>2 DEF Revoking
  <2>2. CASE b = a
    BY <2>1, <2>2 DEF Guarded
  <2>3. CASE b # a
    BY <2>1, <2>3, OthersAhead DEF Guarded, Revoking
  <2> QED BY <2>2, <2>3
<1> QED BY <1>1, <1>2 DEF Guarded

\* Accesses are given in guarded windows, if the actor who moves does so.
LEMMA GrantsKept ==
  ASSUME Granting, NEW a \in Actor, Others(a),
         \A v \in Window : Guarded(v) => Guarded(v)',
         \A v \in Window : Gives(a, v)' => Guarded(v)'
  PROVE  Granting'
<1>1. ASSUME NEW b \in Actor, NEW v \in Window, Gives(b, v)' PROVE Guarded(v)'
  <2>1. CASE b = a
    BY <1>1, <2>1
  <2>2. CASE b # a
    BY <1>1, <2>2, OthersAhead DEF Granting
  <2> QED BY <2>1, <2>2
<1> QED BY <1>1 DEF Granting

\* Whoever is in was in already, comes into a guarded window, or is let in by hand.
LEMMA CoverKept ==
  ASSUME Covered,
         \A v \in Window : Guarded(v) => Guarded(v)',
         \A v \in Window, p \in Element : access'[v][p] = "active" =>
            \/ access[v][p] = "active" /\ (<<v, p>> \in byHand => <<v, p>> \in byHand')
            \/ Guarded(v)'
            \/ <<v, p>> \in byHand'
  PROVE  Covered'
BY DEF Covered

-------------------------------------------------------------------------------
(* One lemma per way of going on.                                              *)

\* An operation begins.
LEMMA BeginKeeps ==
  ASSUME IInv, NEW a \in Actor, Idle(a), NEW s, Begin(a, s), Sound(s),
         a = Cycle => Claimed(s) /\ ~ CutFirst(s),
         \A v \in Window : GrantFirst(s) /\ s[1][2] = v => window[v] = "open",
         ops' \in 0..MaxOps, UNCHANGED <<world, rows, history, faults>>
  PROVE  IInv'
<1> USE DEF world, rows, history
<1>1. /\ ScriptInv' /\ Others(a) /\ Ahead(a)[1] = "none"
      /\ \A w : Gives(a, w)' => GrantFirst(s) /\ s[1][2] = w
      /\ \A w, p : Ahead(a)' = <<"Cut", w, p>> => CutFirst(s)
  BY AfterBegin DEF IInv
<1>2. RowsOK'
  BY DEF IInv, RowsOK, OneOpenPerPhase
<1>3. ASSUME NEW v \in Window, Guarded(v) PROVE Guarded(v)'
  BY <1>1, <1>3, GuardKept
<1>4. ASSUME NEW v \in Window, Gives(a, v)' PROVE Guarded(v)'
  BY <1>1, <1>4 DEF Guarded
<1>5. Granting'
  BY <1>1, <1>3, <1>4, GrantsKept DEF IInv
<1>6. Covered'
  BY <1>3, CoverKept DEF IInv
<1>7. SettledInv'
  <2>1. ASSUME NEW t \in settled' PROVE Ahead(Cycle)' # <<"Cut", t[1], t[2]>>
    <3>1. CASE a = Cycle
      BY <1>1, <3>1
    <3>2. CASE a # Cycle
      BY <1>1, <2>1, <3>2, OthersAhead DEF IInv, SettledInv, Actor
    <3> QED BY <3>1, <3>2
  <2> QED BY <2>1 DEF IInv, SettledInv
<1> QED BY <1>1, <1>2, <1>5, <1>6, <1>7 DEF IInv

\* A statement is done, and the next one of the script follows.
LEMMA GoesKeeps ==
  ASSUME IInv, NEW a \in Actor, ~ Idle(a), Goes(a), RowsOK', torn' = torn,
         \A v \in Window : window[v] = "open" => window'[v] = "open" \/ Ahead(a) = <<"Shut", v>>,
         \A v \in Window : Ahead(a) = <<"Open", v>> => window'[v] = "open",
         \A v \in Window : Ahead(a) # <<"RevokeAll", v>>,
         \A v \in Window, p \in Element : access'[v][p] = "active" =>
            \/ access[v][p] = "active" /\ (<<v, p>> \in byHand => <<v, p>> \in byHand')
            \/ Gives(a, v)
            \/ <<v, p>> \in byHand',
         marker \subseteq marker',
         \A s \in settled' \ settled :
            <<"sale", s[1], s[2]>> \in marker' /\ Ahead(Cycle) # <<"Cut", s[1], s[2]>>,
         \A v, p : Ahead(a) = <<"ClaimSale", v, p>> =>
            <<"sale", v, p>> \notin marker /\ settled' = settled
  PROVE  IInv'
<1>1. /\ ScriptInv' /\ Others(a)
      /\ \A w : Gives(a, w)' => Ahead(a) = <<"Open", w>>
      /\ \A w : Ahead(a) = <<"Shut", w>> => Ahead(a)' = <<"RevokeAll", w>>
      /\ \A w, p : a = Cycle /\ Ahead(a)' = <<"Cut", w, p>> => Ahead(a) = <<"ClaimSale", w, p>>
  BY AfterGoes DEF IInv
<1>2. ASSUME NEW v \in Window, Guarded(v) PROVE Guarded(v)'
  BY <1>1, <1>2, GuardKept
<1>3. Granting'
  <2>1. ASSUME NEW v \in Window, Gives(a, v)' PROVE Guarded(v)'
    BY <1>1, <2>1 DEF Guarded
  <2> QED BY <1>1, <1>2, <2>1, GrantsKept DEF IInv
<1>4. Covered'
  <2>1. \A v \in Window : Gives(a, v) => Guarded(v)'
    BY <1>2 DEF IInv, Granting
  <2> QED BY <1>2, <2>1, CoverKept DEF IInv
<1>5. SettledInv'
  <2>1. ASSUME NEW s \in settled'
        PROVE  <<"sale", s[1], s[2]>> \in marker' /\ Ahead(Cycle)' # <<"Cut", s[1], s[2]>>
    <3>1. <<"sale", s[1], s[2]>> \in marker' /\ Ahead(Cycle) # <<"Cut", s[1], s[2]>>
      BY <2>1 DEF IInv, SettledInv
    <3>2. CASE a # Cycle
      BY <1>1, <3>1, <3>2, OthersAhead DEF Actor
    <3>3. CASE a = Cycle /\ Ahead(Cycle)' = <<"Cut", s[1], s[2]>>
      <4>1. Ahead(a) = <<"ClaimSale", s[1], s[2]>>
        BY <1>1, <3>3
      <4>2. s \in settled /\ <<"sale", s[1], s[2]>> \notin marker
        BY <2>1, <4>1
      <4> QED BY <4>2 DEF IInv, SettledInv
    <3> QED BY <3>1, <3>2, <3>3
  <2> QED BY <2>1 DEF SettledInv
<1> QED BY <1>1, <1>3, <1>4, <1>5 DEF IInv

\* A statement puts others before the rest.
LEMMA ThenKeeps ==
  ASSUME IInv, NEW a \in Actor, ~ Idle(a), NEW u, Then(a, u), Sound(u), u # <<>>,
         a = Cycle => Claimed(u), u[1][1] # "Cut",
         Ahead(a)[1] \notin {"Open", "ClaimSale", "RevokeAll"},
         u[1][1] \in Grants => window[u[1][2]] = "open",
         UNCHANGED <<world, rows, history, bounds>>
  PROVE  IInv'
<1> USE DEF world, rows, history, bounds
<1>1. ScriptInv' /\ Others(a) /\ Ahead(a)' = u[1]
  BY AfterThen DEF IInv
<1>2. RowsOK'
  BY DEF IInv, RowsOK, OneOpenPerPhase
<1>3. ASSUME NEW v \in Window, Guarded(v) PROVE Guarded(v)'
  BY <1>1, <1>3, GuardKept
<1>4. ASSUME NEW v \in Window, Gives(a, v)' PROVE Guarded(v)'
  BY <1>1, <1>4 DEF Guarded, Gives, Grants
<1>5. Granting'
  BY <1>1, <1>3, <1>4, GrantsKept DEF IInv
<1>6. Covered'
  BY <1>3, CoverKept DEF IInv
<1>7. SettledInv'
  <2>1. ASSUME NEW t \in settled' PROVE Ahead(Cycle)' # <<"Cut", t[1], t[2]>>
    <3>1. CASE a = Cycle
      BY <1>1, <3>1
    <3>2. CASE a # Cycle
      BY <1>1, <2>1, <3>2, OthersAhead DEF IInv, SettledInv, Actor
    <3> QED BY <3>1, <3>2
  <2> QED BY <2>1 DEF IInv, SettledInv
<1> QED BY <1>1, <1>2, <1>5, <1>6, <1>7 DEF IInv

\* A statement is refused, and the rest given up.
LEMMA ThrowKeeps ==
  ASSUME IInv, NEW a \in Actor, Throws(a), Ahead(a)[1] # "RevokeAll",
         UNCHANGED <<world, rows, history, bounds>>
  PROVE  IInv'
<1> USE DEF world, rows, history, bounds
<1>1. ScriptInv' /\ Others(a) /\ Ahead(a)' = <<"none">>
  BY AfterThrow DEF IInv
<1>2. RowsOK'
  BY DEF IInv, RowsOK, OneOpenPerPhase
<1>3. ASSUME NEW v \in Window, Guarded(v) PROVE Guarded(v)'
  BY <1>1, <1>3, GuardKept
<1>4. \A v \in Window : ~ Gives(a, v)'
  BY <1>1 DEF Gives
<1>5. Granting'
  BY <1>1, <1>3, <1>4, GrantsKept DEF IInv
<1>6. Covered'
  BY <1>3, CoverKept DEF IInv
<1>7. SettledInv'
  <2>1. ASSUME NEW t \in settled' PROVE Ahead(Cycle)' # <<"Cut", t[1], t[2]>>
    <3>1. CASE a = Cycle
      BY <1>1, <3>1
    <3>2. CASE a # Cycle
      BY <1>1, <2>1, <3>2, OthersAhead DEF IInv, SettledInv, Actor
    <3> QED BY <3>1, <3>2
  <2> QED BY <2>1 DEF IInv, SettledInv
<1> QED BY <1>1, <1>2, <1>5, <1>6, <1>7 DEF IInv

-------------------------------------------------------------------------------
(* The operations and the statements.                                          *)

\* The invariant holds at first.
LEMMA InitHolds == Init => IInv
<1> SUFFICES ASSUME Init PROVE IInv
  OBVIOUS
<1>1. RowsOK
  <2>1. access \in [Window -> [Element -> {"none", "active", "revoked"}]]
    BY DEF Init
  <2>2. OneOpenPerPhase /\ window \in [Window -> {"closed", "open"}]
    BY DEF Init, OneOpenPerPhase
  <2>3. ops \in 0..MaxOps /\ faults \in 0..MaxFaults /\ clock \in 0..3
    BY WindowsAssumption DEF Init
  <2> QED BY <2>1, <2>2, <2>3 DEF Init, RowsOK
<1>2. ScriptInv
  <2>1. <<>> \in Seq(Statement) /\ Sound(<<>>) /\ Claimed(<<>>)
    BY EmptyPlain, EmptySeq
  <2>2. \A a \in Actor : script[a] = <<>>
    BY DEF Init
  <2>3. script \in [Actor -> Seq(Statement)] /\ Cycle \in Actor
    BY <2>1 DEF Init, Actor
  <2> QED BY <2>1, <2>2, <2>3 DEF ScriptInv
<1>3. Granting
  <2>1. \A a \in Actor : Ahead(a) = <<"none">>
    BY DEF Init, Ahead, Idle
  <2> QED BY <2>1 DEF Granting, Gives
<1>4. Covered /\ SettledInv
  BY DEF Init, Covered, SettledInv
<1> QED BY <1>1, <1>2, <1>3, <1>4 DEF IInv

\* The operations of a director, whose scripts give nothing but in open windows.
LEMMA DirectorActs ==
  ASSUME IInv, NEW d \in Director, Acts(d), NEW s, Begin(d, s), Sound(s),
         \A v \in Window : GrantFirst(s) /\ s[1][2] = v => window[v] = "open"
  PROVE  IInv'
<1>1. d \in Actor /\ d # Cycle
  BY WindowsAssumption DEF Actor
<1>2. ops' \in 0..MaxOps
  BY WindowsAssumption DEF IInv, RowsOK, Acts
<1> QED BY <1>1, <1>2, BeginKeeps DEF Acts

\* Each of them.
LEMMA DirectorKeeps ==
  ASSUME IInv, NEW d \in Director, NEW w \in Window
  PROVE  /\ StartWindow(d, w) \/ ReopenWindow(d, w) \/ StopWindow(d, w) => IInv'
         /\ \A p \in Element :
              StartElement(d, w, p) \/ StopElement(d, w, p) \/ DecideAccess(d, w, p) => IInv'
<1>1. ASSUME StartWindow(d, w) PROVE IInv'
  BY <1>1, StartSound, DirectorActs DEF StartWindow
<1>2. ASSUME ReopenWindow(d, w) PROVE IInv'
  <2>1. Sound(<<<<"Supersede", w>>, <<"Open", w>>>>) /\ ~ GrantFirst(<<<<"Supersede", w>>, <<"Open", w>>>>)
    BY ReopenScript, PlainSound
  <2> QED BY <1>2, <2>1, DirectorActs DEF ReopenWindow
<1>3. ASSUME StopWindow(d, w) PROVE IInv'
  <2> DEFINE x == IF window[w] = "open" THEN <<"Close", w>> ELSE <<"RevokeAll", w>>
  <2>1. x \in Statement /\ x[1] \notin Grants \cup {"Shut"}
    BY StatementsOnWindows DEF OfWindow, Grants
  <2>2. Begin(d, <<x>>) /\ Acts(d)
    BY <1>3 DEF StopWindow
  <2> HIDE DEF x
  <2>3. Sound(<<x>>) /\ ~ GrantFirst(<<x>>)
    BY <2>1, OneStatement, PlainSound
  <2> QED BY <2>2, <2>3, DirectorActs
<1>4. ASSUME NEW p \in Element, StartElement(d, w, p) PROVE IInv'
  <2> DEFINE s == CuttingOther(w, p) \o <<<<"Allow", w, p>>>>
                    \o (IF w[2] = "pre" THEN <<<<"Mark", w, p>>>> ELSE <<>>)
  <2>1. Begin(d, s) /\ Acts(d)
    BY <1>4 DEF StartElement
  <2>2. Sound(s) /\ ~ GrantFirst(s)
    BY ElementScripts, PlainSound
  <2> QED BY <2>1, <2>2, DirectorActs
<1>5. ASSUME NEW p \in Element, StopElement(d, w, p) PROVE IInv'
  <2> DEFINE s == <<<<"Cut", w, p>>>> \o (IF w[2] = "pre" THEN <<<<"RegainPost", w, p>>>> ELSE <<>>)
  <2>1. Begin(d, s) /\ Acts(d)
    BY <1>5 DEF StopElement
  <2>2. Sound(s) /\ ~ GrantFirst(s)
    BY ElementScripts, PlainSound
  <2> QED BY <2>1, <2>2, DirectorActs
<1>6. ASSUME NEW p \in Element, DecideAccess(d, w, p) PROVE IInv'
  <2>1. Acts(d) /\ \E n \in {"Cut", "Allow"} : Begin(d, <<<<n, w, p>>>>)
    BY <1>6 DEF DecideAccess
  <2>2. PICK n \in {"Cut", "Allow"} : Begin(d, <<<<n, w, p>>>>)
    BY <2>1
  <2>3. <<n, w, p>> \in Statement /\ <<n, w, p>>[1] \notin Grants \cup {"Shut"}
    BY StatementsOnSpots DEF OfSpot, Grants
  <2>4. Sound(<<<<n, w, p>>>>) /\ ~ GrantFirst(<<<<n, w, p>>>>)
    BY <2>3, OneStatement, PlainSound
  <2> QED BY <2>1, <2>2, <2>4, DirectorActs
<1> QED BY <1>1, <1>2, <1>3, <1>4, <1>5, <1>6

\* A login gives an access in a window it has read as open.
LEMMA LoginKeeps ==
  ASSUME IInv, NEW g \in Guest, NEW w \in Window, NEW p \in Element, Login(g, w, p)
  PROVE  IInv'
<1> DEFINE x == <<"CreateAccess", w, p>>
<1>1. g \in Actor /\ g # Cycle
  BY WindowsAssumption DEF Actor
<1>2. x \in Statement /\ x[1] # "Shut" /\ x[2] = w
  BY StatementsOnSpots DEF OfSpot
<1>3. Idle(g) /\ Begin(g, <<x>>) /\ window[w] = "open" /\ UNCHANGED <<world, rows, history, faults>>
      /\ ops' \in 0..MaxOps
  BY DEF Login, bounds, IInv, RowsOK
<1> HIDE DEF x
<1>4. Sound(<<x>>) /\ <<x>>[1] = x
  BY <1>2, OneStatement
<1> QED BY <1>1, <1>2, <1>3, <1>4, BeginKeeps

\* The operations of the cycle cron.
LEMMA CycleKeeps ==
  ASSUME IInv, NEW w \in Window
  PROVE  /\ StartPost(w) \/ StopOnDelivery(w) => IInv'
         /\ \A p \in Element : StopOnSale(w, p) => IInv'
<1>1. Cycle \in Actor
  BY DEF Actor
<1>2. ASSUME StartPost(w) PROVE IInv'
  <2> DEFINE s == <<<<"ClaimStart", w>>>> \o Opening(w)
  <2>1. Idle(Cycle) /\ Begin(Cycle, s) /\ UNCHANGED <<world, rows, history, faults>> /\ ops' \in 0..MaxOps
    BY <1>2 DEF StartPost, bounds, IInv, RowsOK
  <2>2. Sound(s) /\ Claimed(s) /\ ~ CutFirst(s) /\ ~ GrantFirst(s)
    BY StartPostSound DEF CutFirst, GrantFirst, Grants
  <2> QED BY <1>1, <2>1, <2>2, BeginKeeps
<1>3. ASSUME StopOnDelivery(w) PROVE IInv'
  <2> DEFINE s == <<<<"ClaimDelivery", w>>, <<"StartNext", w>>, <<"StopFresh", w>>>>
  <2>1. Idle(Cycle) /\ Begin(Cycle, s) /\ UNCHANGED <<world, rows, history, faults>> /\ ops' \in 0..MaxOps
    BY <1>3 DEF StopOnDelivery, bounds, IInv, RowsOK
  <2>2. Sound(s) /\ Claimed(s) /\ ~ CutFirst(s) /\ ~ GrantFirst(s)
    BY CycleScripts, PlainSound
  <2> QED BY <1>1, <2>1, <2>2, BeginKeeps
<1>4. ASSUME NEW p \in Element, StopOnSale(w, p) PROVE IInv'
  <2> DEFINE s == <<<<"ClaimSale", w, p>>, <<"Cut", w, p>>, <<"RegainPost", w, p>>>>
  <2>1. Idle(Cycle) /\ Begin(Cycle, s) /\ UNCHANGED <<world, rows, history, faults>> /\ ops' \in 0..MaxOps
    BY <1>4 DEF StopOnSale, bounds, IInv, RowsOK
  <2>2. Sound(s) /\ Claimed(s) /\ ~ CutFirst(s) /\ ~ GrantFirst(s)
    BY CycleScripts, PlainSound
  <2> QED BY <1>1, <2>1, <2>2, BeginKeeps
<1> QED BY <1>2, <1>3, <1>4

\* The operation of the lifecycle cron.
LEMMA ExpireKeeps ==
  ASSUME IInv, NEW w \in Window, Expire(w)
  PROVE  IInv'
<1> DEFINE x == IF window[w] = "open" THEN <<"Close", w>> ELSE <<"RevokeAll", w>>
<1>1. Lifecycle \in Actor /\ Lifecycle # Cycle
  BY DEF Actor, Lifecycle, Cycle
<1>2. x \in Statement /\ x[1] \notin Grants \cup {"Shut"}
  BY StatementsOnWindows DEF OfWindow, Grants
<1>3. Idle(Lifecycle) /\ Begin(Lifecycle, <<x>>) /\ UNCHANGED <<world, rows, history, faults>>
      /\ ops' \in 0..MaxOps
  BY DEF Expire, bounds, IInv, RowsOK
<1> HIDE DEF x
<1>4. Sound(<<x>>) /\ ~ GrantFirst(<<x>>)
  BY <1>2, OneStatement, PlainSound
<1> QED BY <1>1, <1>3, <1>4, BeginKeeps

\* A statement that changes no row, and puts others before the rest or none.
LEMMA SpliceKeeps ==
  ASSUME IInv, NEW a \in Actor, ~ Idle(a), NEW u, Then(a, u), Sound(u), Claimed(u), ~ CutFirst(u),
         Ahead(a)[1] \notin {"Shut", "Open", "ClaimSale", "RevokeAll"},
         GrantFirst(u) => window[u[1][2]] = "open",
         UNCHANGED <<world, rows, history, bounds>>
  PROVE  IInv'
<1>1. CASE u # <<>>
  BY <1>1, ThenKeeps DEF CutFirst, GrantFirst
<1>2. CASE u = <<>>
  <2>1. Goes(a)
    BY <1>2 DEF Goes
  <2>2. RowsOK'
    BY DEF IInv, RowsOK, OneOpenPerPhase, world, rows, history, bounds
  <2>3. window' = window /\ access' = access /\ marker' = marker
        /\ byHand' = byHand /\ torn' = torn /\ settled' = settled
    BY DEF rows, history
  <2> QED BY <2>1, <2>2, <2>3, GoesKeeps
<1> QED BY <1>1, <1>2

\* Supersede, Close, StartNext, StopFresh, RegainPost.
LEMMA PutsOff ==
  ASSUME IInv, NEW a \in Actor, NEW w,
         Supersede(a, w) \/ Close(a, w) \/ StartNext(a, w) \/ StopFresh(a, w)
           \/ \E p : RegainPost(a, w, p)
  PROVE  IInv'
<1>1. ASSUME Supersede(a, w) PROVE IInv'
  <2> DEFINE ws == {v \in Window : v[2] = w[2] /\ v # w /\ window[v] = "open"}
             u == InTurn(ws)
  <2>1. Plain(u) /\ NoCut(u)
    BY ClosedInTurn
  <2>2. Sound(u) /\ ~ GrantFirst(u) /\ Claimed(u) /\ ~ CutFirst(u)
    BY <2>1, PlainSound, NoCutClaimed DEF Plain
  <2>3. Ahead(a) = <<"Supersede", w>> /\ Then(a, u) /\ UNCHANGED <<world, rows, history, bounds>>
    BY <1>1 DEF Supersede, Does
  <2>4. ~ Idle(a)
    BY <2>3 DEF Ahead
  <2> HIDE DEF u
  <2> QED BY <2>2, <2>3, <2>4, SpliceKeeps
<1>2. ASSUME Close(a, w) PROVE IInv'
  <2> DEFINE u == IF window[w] = "open" THEN Closing(w) ELSE <<>>
  <2>1. Ahead(a) = <<"Close", w>> /\ Then(a, u) /\ UNCHANGED <<world, rows, history, bounds>>
    BY <1>2 DEF Close, Does
  <2>2. w \in Window /\ ~ Idle(a)
    BY <2>1, OnWindow DEF IInv, OfWindow
  <2>3. Sound(u) /\ Claimed(u) /\ ~ CutFirst(u) /\ ~ GrantFirst(u)
    <3>1. Sound(Closing(w)) /\ Claimed(Closing(w)) /\ ~ CutFirst(Closing(w)) /\ ~ GrantFirst(Closing(w))
      BY <2>2, ClosingSound, NoCutClaimed DEF Sound, GrantFirst, Grants
    <3> QED BY <3>1, EmptyPlain DEF CutFirst, GrantFirst
  <2> HIDE DEF u
  <2> QED BY <2>1, <2>2, <2>3, SpliceKeeps
<1>3. ASSUME StartNext(a, w) PROVE IInv'
  <2>1. Ahead(a) = <<"StartNext", w>> /\ UNCHANGED <<world, rows, history, bounds>>
    BY <1>3 DEF StartNext, Does
  <2>2. ~ Idle(a)
    BY <2>1 DEF Ahead
  <2>3. ASSUME NEW v \in Window, Then(a, StoppingOther(v) \o Opening(v)) PROVE IInv'
    BY <2>1, <2>2, <2>3, StartSound, SpliceKeeps
  <2>4. ASSUME Goes(a) PROVE IInv'
    <3>1. Then(a, <<>>) /\ Sound(<<>>) /\ Claimed(<<>>) /\ ~ CutFirst(<<>>) /\ ~ GrantFirst(<<>>)
      BY <2>4, EmptyPlain DEF Goes, CutFirst, GrantFirst
    <3> QED BY <2>1, <2>2, <3>1, SpliceKeeps
  <2> QED BY <1>3, <2>3, <2>4 DEF StartNext
<1>4. ASSUME StopFresh(a, w) PROVE IInv'
  <2> DEFINE x == IF window[w] = "open" THEN <<"Close", w>> ELSE <<"RevokeAll", w>>
  <2>1. Ahead(a) = <<"StopFresh", w>> /\ Then(a, <<x>>) /\ UNCHANGED <<world, rows, history, bounds>>
    BY <1>4 DEF StopFresh, Does
  <2>2. w \in Window /\ ~ Idle(a)
    BY <2>1, OnWindow DEF IInv, OfWindow
  <2>3. x \in Statement /\ x[1] \notin Grants \cup {"Shut", "Cut"}
    BY <2>2, StatementsOnWindows DEF OfWindow, Grants
  <2> HIDE DEF x
  <2>4. Sound(<<x>>) /\ Claimed(<<x>>) /\ ~ CutFirst(<<x>>) /\ ~ GrantFirst(<<x>>)
    BY <2>3, OneStatement, PlainSound, NoCutClaimed
  <2> QED BY <2>1, <2>2, <2>4, SpliceKeeps
<1>5. ASSUME NEW p, RegainPost(a, w, p) PROVE IInv'
  <2> DEFINE x == <<"GiveBack", Post(w), p>>
             u == IF Post(w) \in Window /\ window[Post(w)] = "open" THEN <<x>> ELSE <<>>
  <2>1. Ahead(a) = <<"RegainPost", w, p>> /\ Then(a, u) /\ UNCHANGED <<world, rows, history, bounds>>
    BY <1>5 DEF RegainPost, DoesAt
  <2>2. p \in Element /\ ~ Idle(a)
    BY <2>1, OnSpot DEF IInv, OfSpot
  <2>3. CASE Post(w) \in Window /\ window[Post(w)] = "open"
    <3>1. x \in Statement /\ x[1] # "Shut" /\ x[1] # "Cut" /\ x[2] = Post(w)
      BY <2>2, <2>3, StatementsOnSpots DEF OfSpot
    <3>2. u = <<x>>
      BY <2>3
    <3> HIDE DEF x, u
    <3>3. Sound(<<x>>) /\ Claimed(<<x>>) /\ ~ CutFirst(<<x>>) /\ <<x>>[1] = x
      BY <3>1, OneStatement, NoCutClaimed
    <3> QED BY <2>1, <2>2, <2>3, <3>1, <3>2, <3>3, SpliceKeeps
  <2>4. CASE ~ (Post(w) \in Window /\ window[Post(w)] = "open")
    <3>1. Then(a, <<>>) /\ Sound(<<>>) /\ Claimed(<<>>) /\ ~ CutFirst(<<>>) /\ ~ GrantFirst(<<>>)
      BY <2>1, <2>4, EmptyPlain DEF CutFirst, GrantFirst
    <3> QED BY <2>1, <2>2, <3>1, SpliceKeeps
  <2> QED BY <2>3, <2>4
<1> QED BY <1>1, <1>2, <1>3, <1>4, <1>5

\* Shut, Open, ActivateAll: the index refuses a second open window of a phase.
LEMMA DoorsMove ==
  ASSUME IInv, NEW a \in Actor, NEW w,
         Shut(a, w) \/ Open(a, w) \/ ActivateAll(a, w)
  PROVE  IInv'
<1>1. ASSUME Shut(a, w) PROVE IInv'
  <2>1. /\ Ahead(a) = <<"Shut", w>> /\ Goes(a)
        /\ window' = window \/ window' = [window EXCEPT ![w] = "closed"]
        /\ access' = access /\ marker' = marker /\ UNCHANGED <<world, history, bounds>>
    BY <1>1 DEF Shut, Does, SetWindow
  <2>2. w \in Window /\ ~ Idle(a)
    BY <2>1, OnWindow DEF IInv, OfWindow
  <2>3. window' \in [Window -> {"closed", "open"}] /\ OneOpenPerPhase'
        /\ \A v \in Window : window[v] = "open" => window'[v] = "open" \/ v = w
    BY <2>1, <2>2 DEF IInv, RowsOK, OneOpenPerPhase
  <2>4. RowsOK'
    BY <2>1, <2>3 DEF IInv, RowsOK, world, history, bounds
  <2> QED BY <2>1, <2>2, <2>3, <2>4, GoesKeeps DEF history
<1>2. ASSUME Open(a, w) PROVE IInv'
  <2>1. /\ Ahead(a) = <<"Open", w>>
        /\ access' = access /\ marker' = marker /\ UNCHANGED <<world, history, bounds>>
    BY <1>2 DEF Open, Does
  <2>2. w \in Window /\ ~ Idle(a)
    BY <2>1, OnWindow DEF IInv, OfWindow
  <2>3. CASE \E v \in Window : v # w /\ v[2] = w[2] /\ window[v] = "open"
    <3>1. Throws(a) /\ UNCHANGED <<world, rows, history, bounds>>
      BY <1>2, <2>1, <2>3 DEF Open, rows
    <3> QED BY <2>1, <3>1, ThrowKeeps
  <2>4. CASE ~ \E v \in Window : v # w /\ v[2] = w[2] /\ window[v] = "open"
    <3>1. Goes(a) /\ window' = [window EXCEPT ![w] = "open"]
      BY <1>2, <2>4 DEF Open, SetWindow
    <3>2. window' \in [Window -> {"closed", "open"}] /\ OneOpenPerPhase'
          /\ \A v \in Window : window[v] = "open" => window'[v] = "open"
      BY <2>2, <2>4, <3>1 DEF IInv, RowsOK, OneOpenPerPhase
    <3>3. window'[w] = "open"
      BY <2>2, <3>1 DEF IInv, RowsOK
    <3>4. RowsOK'
      BY <2>1, <3>2 DEF IInv, RowsOK, world, history, bounds
    <3> QED BY <2>1, <2>2, <3>1, <3>2, <3>3, <3>4, GoesKeeps DEF history
  <2> QED BY <2>3, <2>4
<1>3. ASSUME ActivateAll(a, w) PROVE IInv'
  <2>1. /\ Ahead(a) = <<"ActivateAll", w>> /\ Goes(a)
        /\ access' = [access EXCEPT ![w] =
              [p \in Element |-> IF access[w][p] = "revoked" THEN "active" ELSE access[w][p]]]
        /\ window' = window /\ marker' = marker /\ UNCHANGED <<world, history, bounds>>
    BY <1>3 DEF ActivateAll, Does
  <2>2. w \in Window /\ ~ Idle(a) /\ Gives(a, w)
    BY <2>1, OnWindow DEF IInv, OfWindow, Gives
  <2>3. /\ access' \in [Window -> [Element -> {"none", "active", "revoked"}]]
        /\ \A v \in Window, p \in Element : access'[v][p] = "active" => access[v][p] = "active" \/ v = w
    BY <2>1, <2>2 DEF IInv, RowsOK
  <2>4. RowsOK'
    BY <2>1, <2>3 DEF IInv, RowsOK, OneOpenPerPhase, world, history, bounds
  <2> QED BY <2>1, <2>2, <2>3, <2>4, GoesKeeps DEF history
<1> QED BY <1>1, <1>2, <1>3

\* The three claims: a claim that goes through finds no marker, so no point of
\* sale that a hand has settled is cut after it.
LEMMA ClaimsKeep ==
  ASSUME IInv, NEW a \in Actor, NEW w,
         ClaimStart(a, w) \/ ClaimDelivery(a, w) \/ \E p : ClaimSale(a, w, p)
  PROVE  IInv'
<1>1. PICK key : /\ Claims(a, key) /\ UNCHANGED <<window, access, history, world, bounds>>
                 /\ \/ key = <<"start", w>> /\ Ahead(a) = <<"ClaimStart", w>>
                    \/ key = <<"delivery", w>> /\ Ahead(a) = <<"ClaimDelivery", w>>
                    \/ \E p : key = <<"sale", w, p>> /\ Ahead(a) = <<"ClaimSale", w, p>>
  BY DEF ClaimStart, ClaimDelivery, ClaimSale, Does, DoesAt
<1>2. ~ Idle(a)
  BY <1>1 DEF Ahead
<1>3. key \in ({"start", "delivery"} \X Window) \cup ({"sale"} \X Window \X Element)
  <2>1. ASSUME key = <<"start", w>>, Ahead(a) = <<"ClaimStart", w>> PROVE key \in {"start", "delivery"} \X Window
    BY <2>1, OnWindow DEF IInv, OfWindow
  <2>2. ASSUME key = <<"delivery", w>>, Ahead(a) = <<"ClaimDelivery", w>> PROVE key \in {"start", "delivery"} \X Window
    BY <2>2, OnWindow DEF IInv, OfWindow
  <2>3. ASSUME NEW p, key = <<"sale", w, p>>, Ahead(a) = <<"ClaimSale", w, p>> PROVE key \in {"sale"} \X Window \X Element
    BY <2>3, OnSpot DEF IInv, OfSpot
  <2> QED BY <1>1, <2>1, <2>2, <2>3
<1>4. CASE key \in marker
  <2>1. Throws(a) /\ UNCHANGED <<world, rows, history, bounds>> /\ Ahead(a)[1] # "RevokeAll"
    BY <1>1, <1>4 DEF Claims, rows
  <2> QED BY <2>1, ThrowKeeps
<1>5. CASE key \notin marker
  <2>1. Goes(a) /\ marker' = marker \cup {key}
    BY <1>1, <1>5 DEF Claims
  <2>2. RowsOK'
    BY <1>1, <1>3, <2>1 DEF IInv, RowsOK, OneOpenPerPhase, world, history, bounds
  <2>3. \A v, p : Ahead(a) = <<"ClaimSale", v, p>> => <<"sale", v, p>> \notin marker /\ settled' = settled
    BY <1>1, <1>5 DEF history
  <2>4. \A v : Ahead(a) # <<"Shut", v>> /\ Ahead(a) # <<"Open", v>> /\ Ahead(a) # <<"RevokeAll", v>>
    BY <1>1
  <2> QED BY <1>1, <1>2, <2>1, <2>2, <2>3, <2>4, GoesKeeps DEF history
<1> QED BY <1>4, <1>5

\* The statements on the access of one point of sale.
LEMMA SpotKeeps ==
  ASSUME IInv, NEW a \in Actor, NEW w, NEW p,
         Allow(a, w, p) \/ GiveBack(a, w, p) \/ Cut(a, w, p) \/ Mark(a, w, p) \/ CreateAccess(a, w, p)
  PROVE  IInv'
<1>1. PICK n \in {"Allow", "GiveBack", "Cut", "Mark", "CreateAccess"} :
         Ahead(a) = <<n, w, p>> /\ UNCHANGED <<world, window, torn, bounds>> /\ Goes(a)
  BY DEF Allow, GiveBack, Cut, Mark, CreateAccess, DoesAt, history
<1>2. w \in Window /\ p \in Element /\ ~ Idle(a)
  BY <1>1, OnSpot DEF IInv, OfSpot
<1>3. \A st \in {"active", "revoked"} : SetAccess(w, p, st) =>
        /\ access' \in [Window -> [Element -> {"none", "active", "revoked"}]]
        /\ \A v \in Window, q \in Element :
              access'[v][q] = IF v = w /\ q = p THEN st ELSE access[v][q]
  BY <1>2 DEF IInv, RowsOK, SetAccess
<1>4. <<w, p>> \in Spot /\ <<"sale", w, p>> \in {"sale"} \X Window \X Element
  BY <1>2 DEF Spot
<1>5. \A v, q : Ahead(a) # <<"Shut", v>> /\ Ahead(a) # <<"Open", v>> /\ Ahead(a) # <<"RevokeAll", v>>
                /\ Ahead(a) # <<"ClaimSale", v, q>>
  BY <1>1
<1>6. ASSUME Allow(a, w, p) PROVE IInv'
  <2>1. SetAccess(w, p, "active") /\ byHand' = byHand \cup {<<w, p>>} /\ UNCHANGED <<marker, settled>>
    BY <1>6 DEF Allow
  <2>2. RowsOK'
    BY <1>1, <1>3, <1>4, <2>1 DEF IInv, RowsOK, OneOpenPerPhase, world, bounds
  <2>3. \A v \in Window, q \in Element : access'[v][q] = "active" =>
           \/ access[v][q] = "active" /\ (<<v, q>> \in byHand => <<v, q>> \in byHand')
           \/ <<v, q>> \in byHand'
    BY <1>3, <2>1
  <2> QED BY <1>1, <1>2, <1>5, <2>1, <2>2, <2>3, GoesKeeps
<1>7. ASSUME GiveBack(a, w, p) \/ CreateAccess(a, w, p) PROVE IInv'
  <2>1. /\ SetAccess(w, p, "active") \/ access' = access
        /\ UNCHANGED <<marker, history>> /\ Ahead(a)[1] \in {"GiveBack", "CreateAccess"}
    BY <1>7 DEF GiveBack, CreateAccess, DoesAt
  <2>2. Gives(a, w)
    BY <1>1, <2>1 DEF Gives
  <2>3. RowsOK'
    BY <1>1, <1>3, <2>1 DEF IInv, RowsOK, OneOpenPerPhase, world, bounds, history
  <2>4. \A v \in Window, q \in Element : access'[v][q] = "active" =>
           \/ access[v][q] = "active" /\ (<<v, q>> \in byHand => <<v, q>> \in byHand')
           \/ Gives(a, v)
    BY <1>3, <2>1, <2>2 DEF history
  <2> QED BY <1>1, <1>2, <1>5, <2>1, <2>3, <2>4, GoesKeeps DEF history
<1>8. ASSUME Cut(a, w, p) PROVE IInv'
  <2>1. SetAccess(w, p, "revoked") /\ byHand' = byHand \ {<<w, p>>} /\ UNCHANGED <<marker, settled>>
    BY <1>8 DEF Cut
  <2>2. RowsOK'
    BY <1>1, <1>3, <2>1 DEF IInv, RowsOK, OneOpenPerPhase, world, bounds
  <2>3. \A v \in Window, q \in Element : access'[v][q] = "active" =>
           access[v][q] = "active" /\ (<<v, q>> \in byHand => <<v, q>> \in byHand')
    BY <1>3, <2>1
  <2> QED BY <1>1, <1>2, <1>5, <2>1, <2>2, <2>3, GoesKeeps
<1>9. ASSUME Mark(a, w, p) PROVE IInv'
  <2>1. /\ marker' = marker \cup {<<"sale", w, p>>} /\ UNCHANGED <<access, byHand>>
        /\ settled' = IF Ahead(Cycle) = <<"Cut", w, p>> THEN settled ELSE settled \cup {<<w, p>>}
    BY <1>9 DEF Mark
  <2>2. RowsOK'
    BY <1>1, <1>4, <2>1 DEF IInv, RowsOK, OneOpenPerPhase, world, bounds
  <2>3. \A s \in settled' \ settled : <<"sale", s[1], s[2]>> \in marker' /\ Ahead(Cycle) # <<"Cut", s[1], s[2]>>
    BY <2>1
  <2> QED BY <1>1, <1>2, <1>5, <2>1, <2>2, <2>3, GoesKeeps
<1> QED BY <1>6, <1>7, <1>8, <1>9

\* RevokeAll: nobody is left in, and whoever gives access to the window meanwhile
\* makes it torn.
LEMMA RevokeKeeps ==
  ASSUME IInv, NEW a \in Actor, NEW w, RevokeAll(a, w)
  PROVE  IInv'
<1>1. /\ Ahead(a) = <<"RevokeAll", w>> /\ Goes(a)
      /\ access' = [access EXCEPT ![w] =
            [p \in Element |-> IF access[w][p] = "active" THEN "revoked" ELSE access[w][p]]]
      /\ byHand' = byHand \ ({w} \X Element)
      /\ torn' = IF BeingGiven(a, w) THEN torn \cup {w} ELSE torn \ {w}
      /\ UNCHANGED <<world, bounds, window, marker, settled>>
  BY DEF RevokeAll, Does
<1>2. w \in Window /\ ~ Idle(a)
  BY <1>1, OnWindow DEF IInv, OfWindow
<1>3. /\ access' \in [Window -> [Element -> {"none", "active", "revoked"}]]
      /\ \A p \in Element : access'[w][p] # "active"
      /\ \A v \in Window \ {w} : access'[v] = access[v]
  BY <1>1, <1>2 DEF IInv, RowsOK
<1>4. RowsOK'
  BY <1>1, <1>2, <1>3 DEF IInv, RowsOK, OneOpenPerPhase, world, bounds
<1>5. /\ ScriptInv' /\ Others(a)
      /\ \A v : ~ Gives(a, v)'
      /\ \A v, p : a = Cycle => Ahead(a)' # <<"Cut", v, p>>
  BY <1>1, <1>2, AfterGoes DEF IInv
<1>6. ASSUME NEW v \in Window \ {w}, Guarded(v) PROVE Guarded(v)'
  BY <1>1, <1>5, <1>6, GuardKept
<1>7. Granting'
  <2>1. ASSUME NEW b \in Actor, NEW v \in Window, Gives(b, v)' PROVE Guarded(v)'
    <3>1. b # a /\ Gives(b, v)
      BY <1>5, <2>1, OthersAhead
    <3>2. CASE v # w
      BY <1>6, <3>1, <3>2 DEF IInv, Granting
    <3>3. CASE v = w
      BY <1>1, <3>1, <3>3 DEF BeingGiven, Guarded
    <3> QED BY <3>2, <3>3
  <2> QED BY <2>1 DEF Granting
<1>8. Covered'
  <2>1. ASSUME NEW v \in Window, NEW p \in Element, access'[v][p] = "active"
        PROVE  Guarded(v)' \/ <<v, p>> \in byHand'
    <3>1. v # w /\ access[v][p] = "active"
      BY <1>3, <2>1
    <3>2. <<v, p>> \in byHand => <<v, p>> \in byHand'
      BY <1>1, <3>1
    <3> QED BY <1>6, <3>1, <3>2 DEF IInv, Covered
  <2> QED BY <2>1 DEF Covered
<1>9. SettledInv'
  <2>1. ASSUME NEW s \in settled PROVE Ahead(Cycle)' # <<"Cut", s[1], s[2]>>
    <3>1. CASE a = Cycle
      BY <1>5, <3>1
    <3>2. CASE a # Cycle
      BY <1>5, <2>1, <3>2, OthersAhead DEF IInv, SettledInv, Actor
    <3> QED BY <3>1, <3>2
  <2> QED BY <1>1, <2>1 DEF IInv, SettledInv
<1> QED BY <1>4, <1>5, <1>7, <1>8, <1>9 DEF IInv

\* Statements are lost: a revocation that was next makes its window torn.
LEMMA DropKeeps ==
  ASSUME IInv, NEW as \in SUBSET Actor, Drops(as)
  PROVE  IInv'
<1>1. /\ faults' = faults + 1 /\ faults < MaxFaults
      /\ script' = [a \in Actor |-> IF a \in as THEN <<>> ELSE script[a]]
      /\ torn' = torn \cup {w \in Window : \E a \in as : Ahead(a) = <<"RevokeAll", w>>}
      /\ UNCHANGED <<world, rows, byHand, settled, ops>>
  BY DEF Drops
<1>2. RowsOK'
  <2>1. faults' \in 0..MaxFaults
    BY <1>1, WindowsAssumption DEF IInv, RowsOK
  <2>2. torn' \subseteq Window
    <3>1. torn \subseteq Window
      BY DEF IInv, RowsOK
    <3> QED BY <1>1, <3>1
  <2> QED BY <1>1, <2>1, <2>2 DEF IInv, RowsOK, OneOpenPerPhase, world, rows
<1>3. \A b \in Actor : script'[b] = IF b \in as THEN <<>> ELSE script[b]
  BY <1>1
<1>4. ScriptInv'
  <2>1. <<>> \in Seq(Statement) /\ Sound(<<>>) /\ Claimed(<<>>)
    BY EmptyPlain, EmptySeq
  <2>2. \A b \in Actor : script'[b] \in Seq(Statement) /\ Sound(script'[b])
    BY <1>3, <2>1 DEF IInv, ScriptInv
  <2>3. Claimed(script'[Cycle])
    BY <1>3, <2>1 DEF IInv, ScriptInv, Actor
  <2>4. script' \in [Actor -> Seq(Statement)]
    BY <1>1, <2>1 DEF IInv, ScriptInv
  <2> QED BY <2>2, <2>3, <2>4 DEF ScriptInv
<1>5. \A b \in Actor : Ahead(b)' = IF b \in as THEN <<"none">> ELSE Ahead(b)
  BY <1>3 DEF Ahead, Idle
<1>6. ASSUME NEW v \in Window, Guarded(v) PROVE Guarded(v)'
  <2>1. CASE window[v] = "open" \/ v \in torn
    BY <1>1, <2>1 DEF Guarded, rows
  <2>2. CASE Revoking(v)
    <3>1. PICK b \in Actor : Ahead(b) = <<"RevokeAll", v>>
      BY <2>2 DEF Revoking
    <3>2. CASE b \in as
      BY <1>1, <3>1, <3>2 DEF Guarded
    <3>3. CASE b \notin as
      BY <1>5, <3>1, <3>3 DEF Guarded, Revoking
    <3> QED BY <3>2, <3>3
  <2> QED BY <1>6, <2>1, <2>2 DEF Guarded
<1>7. Granting'
  <2>1. ASSUME NEW b \in Actor, NEW v \in Window, Gives(b, v)' PROVE Gives(b, v)
    <3>1. Ahead(b)' # <<"none">>
      BY <2>1 DEF Gives
    <3>2. Ahead(b)' = Ahead(b)
      BY <1>5, <3>1
    <3> QED BY <2>1, <3>2 DEF Gives
  <2> QED BY <1>6, <2>1 DEF IInv, Granting
<1>8. Covered'
  <2>1. access' = access /\ byHand' = byHand
    BY <1>1 DEF rows
  <2> QED BY <1>6, <2>1 DEF IInv, Covered
<1>9. SettledInv'
  <2>1. marker' = marker /\ settled' = settled
    BY <1>1 DEF rows
  <2>2. Ahead(Cycle)' = Ahead(Cycle) \/ Ahead(Cycle)' = <<"none">>
    BY <1>5 DEF Actor
  <2>3. ASSUME NEW s \in settled
        PROVE  <<"sale", s[1], s[2]>> \in marker /\ Ahead(Cycle)' # <<"Cut", s[1], s[2]>>
    <3>1. <<"sale", s[1], s[2]>> \in marker /\ Ahead(Cycle) # <<"Cut", s[1], s[2]>>
      BY DEF IInv, SettledInv
    <3>2. CASE Ahead(Cycle)' = Ahead(Cycle)
      BY <3>1, <3>2
    <3>3. CASE Ahead(Cycle)' = <<"none">>
      <4>1. Ahead(Cycle)'[1] = "none" /\ <<"Cut", s[1], s[2]>>[1] = "Cut"
        BY <3>3
      <4> QED BY <3>1, <4>1
    <3> QED BY <2>2, <3>2, <3>3
  <2> QED BY <2>1, <2>3 DEF SettledInv
<1> QED BY <1>2, <1>4, <1>7, <1>8, <1>9 DEF IInv

\* Time, sales and deliveries.
LEMMA WorldKeeps ==
  ASSUME IInv, UNCHANGED <<rows, script, history, bounds>>,
         clock' \in 0..3, sold' \subseteq Element, delivered' \in BOOLEAN
  PROVE  IInv'
<1> USE DEF rows, history, bounds
<1>1. RowsOK'
  BY DEF IInv, RowsOK, OneOpenPerPhase
<1>2. ScriptInv'
  BY DEF IInv, ScriptInv
<1>3. \A a : Ahead(a)' = Ahead(a) /\ \A v : Gives(a, v)' <=> Gives(a, v)
  BY DEF Ahead, Idle, Gives
<1>4. \A v \in Window : Guarded(v) => Guarded(v)'
  BY <1>3 DEF Guarded, Revoking
<1>5. Granting' /\ Covered' /\ SettledInv'
  BY <1>3, <1>4 DEF IInv, Granting, Covered, SettledInv
<1> QED BY <1>1, <1>2, <1>5 DEF IInv

\* Every step keeps the invariant.
LEMMA StepKeeps == IInv /\ [Next]_vars => IInv'
<1> SUFFICES ASSUME IInv, [Next]_vars PROVE IInv'
  OBVIOUS
<1>1. ASSUME NEW a \in Actor, Turn(a) PROVE IInv'
  <2> DEFINE w == Ahead(a)[2]
             p == Ahead(a)[3]
  <2>1. \/ Supersede(a, w) \/ Close(a, w) \/ StartNext(a, w) \/ StopFresh(a, w) \/ RegainPost(a, w, p)
        \/ Shut(a, w) \/ Open(a, w) \/ ActivateAll(a, w)
        \/ ClaimStart(a, w) \/ ClaimDelivery(a, w) \/ ClaimSale(a, w, p)
        \/ Allow(a, w, p) \/ GiveBack(a, w, p) \/ Cut(a, w, p) \/ Mark(a, w, p) \/ CreateAccess(a, w, p)
        \/ RevokeAll(a, w)
    BY <1>1 DEF Turn
  <2> HIDE DEF w, p
  <2> QED BY <2>1, PutsOff, DoorsMove, ClaimsKeep, SpotKeeps, RevokeKeeps
<1>2. ASSUME NEW a \in Actor, Fails(a) PROVE IInv'
  BY <1>2, DropKeeps DEF Fails
<1>3. ASSUME ApiDies PROVE IInv'
  BY <1>3, DropKeeps DEF ApiDies
<1>4. ASSUME NEW w \in Window,
             \/ \E d \in Director : StartWindow(d, w) \/ ReopenWindow(d, w) \/ StopWindow(d, w)
             \/ \E p \in Element, d \in Director :
                  StartElement(d, w, p) \/ StopElement(d, w, p) \/ DecideAccess(d, w, p)
      PROVE  IInv'
  BY <1>4, DirectorKeeps
<1>5. ASSUME NEW w \in Window, NEW p \in Element, NEW g \in Guest, Login(g, w, p) PROVE IInv'
  BY <1>5, LoginKeeps
<1>6. ASSUME NEW w \in Window, StartPost(w) \/ StopOnDelivery(w) \/ \E p \in Element : StopOnSale(w, p)
      PROVE  IInv'
  BY <1>6, CycleKeeps
<1>7. ASSUME NEW w \in Window, Expire(w) PROVE IInv'
  BY <1>7, ExpireKeeps
<1>8. ASSUME TimePasses \/ Delivery \/ (\E p \in Element : Sale(p)) \/ UNCHANGED vars PROVE IInv'
  <2>1. /\ UNCHANGED <<rows, script, history, bounds>>
        /\ clock' \in 0..3 /\ sold' \subseteq Element /\ delivered' \in BOOLEAN
    <3>1. clock \in 0..3 /\ sold \subseteq Element /\ delivered \in BOOLEAN
      BY DEF IInv, RowsOK
    <3>2. CASE TimePasses
      BY <3>1, <3>2 DEF TimePasses
    <3>3. CASE Delivery
      BY <3>1, <3>3 DEF Delivery
    <3>4. CASE \E p \in Element : Sale(p)
      BY <3>1, <3>4 DEF Sale
    <3>5. CASE UNCHANGED vars
      BY <3>1, <3>5 DEF vars, world
    <3> QED BY <1>8, <3>2, <3>3, <3>4, <3>5
  <2> QED BY <2>1, WorldKeeps
<1> QED BY <1>1, <1>2, <1>3, <1>4, <1>5, <1>6, <1>7, <1>8 DEF Next

\* The invariant of the windows, for any number of windows, points of sale,
\* directors and managers, with statements lost anywhere.
THEOREM WindowsInvariant == Spec => []IInv
BY InitHolds, StepKeeps, PTL DEF Spec

\* Windows, accesses, markers and scripts keep their types, and no two windows of
\* a phase are open at once (the partial unique index and the upsert it refuses).
THEOREM WindowsTypeCorrect == Spec => []TypeOK
<1>1. IInv => TypeOK
  BY Typed DEF IInv
<1> QED BY <1>1, WindowsInvariant, PTL

\* The revocation ahead is one of the statements still to come.
LEMMA RevokingIsListed ==
  ASSUME ScriptInv, NEW a \in Actor, NEW w, Ahead(a) = <<"RevokeAll", w>>
  PROVE  <<"RevokeAll", w>> \in ToSet(script[a])
<1>1. ~ Idle(a) /\ script[a] \in Seq(Statement)
  BY DEF ScriptInv, Ahead
<1>2. /\ Head(script[a]) = script[a][1] /\ Len(script[a]) \in Nat \ {0}
      /\ DOMAIN script[a] = 1..Len(script[a])
  BY <1>1, HeadTailProperties, EmptySeq, LenProperties DEF Idle
<1>3. script[a][1] = <<"RevokeAll", w>> /\ 1 \in DOMAIN script[a]
  BY <1>1, <1>2 DEF Ahead
<1> QED BY <1>3 DEF ToSet

\* A stopped window lets nobody in but a point of sale a director opened by
\* itself: closeInventoryWindows revokes after it shuts, whoever comes between.
THEOREM ClosedStaysClosed == Spec => []ClosedIsClosed
<1>1. IInv => ClosedIsClosed
  <2> SUFFICES ASSUME IInv, NEW w \in Window, NEW p \in Element,
                      window[w] # "open", access[w][p] = "active",
                      <<w, p>> \notin byHand, w \notin torn
               PROVE  \E a \in Actor : <<"RevokeAll", w>> \in ToSet(script[a])
    BY DEF ClosedIsClosed
  <2>1. Revoking(w)
    BY DEF IInv, Covered, Guarded
  <2> QED BY <2>1, RevokingIsListed DEF IInv, Revoking
<1> QED BY <1>1, WindowsInvariant, PTL

\* A point of sale reopened by hand, its marker down, is never cut on a sale again
\* (stopPreElementsOnSale claims before it cuts).
THEOREM SettledIsFinal == Spec => []SettledStays
<1>1. IInv => SettledStays
  BY DEF IInv, SettledInv, SettledStays
<1> QED BY <1>1, WindowsInvariant, PTL
================================================================================
