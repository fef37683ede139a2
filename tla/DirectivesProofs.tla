--------------------------- MODULE DirectivesProofs ---------------------------
(***************************************************************************)
(* The stack of open directives of the template compiler, and the names    *)
(* that its loops hold, for every text.                                    *)
(***************************************************************************)
EXTENDS Directives, AnySequencesProofs

IsFrame(f) == DOMAIN f = {"is", "head", "body", "else", "inElse"}

\* A stack of frames: the root of the tree, and open directives above it.
IsStack(st) ==
  /\ IsSequence(st)
  /\ st # <<>>
  /\ \A n \in 1 .. Len(st) : IsFrame(st[n]) /\ (st[n].is = "root" <=> n = 1)

LEMMA FrameFields ==
  ASSUME NEW is, NEW head
  PROVE  /\ IsFrame(Frame(is, head))
         /\ Frame(is, head).is = is
         /\ Frame(is, head).head = head
BY DEF Frame, IsFrame

LEMMA HeldIsSeq ==
  ASSUME NEW st, IsSequence(st)
  PROVE  /\ Held(st) \in Seq(Nat)
         /\ Len(Held(st)) = Len(st)
         /\ \A n \in 1 .. Len(st) : Held(st)[n] = NamesHeld(st[n])
<1>1. Len(st) \in Nat /\ DOMAIN st = 1 .. Len(st)
  BY DEF IsSequence
<1>2. \A f : NamesHeld(f) \in Nat
  BY DEF NamesHeld, NamesOf
<1>3. Held(st) = [n \in 1 .. Len(st) |-> NamesHeld(st[n])]
  BY <1>1 DEF Held
<1>4. Held(st) \in [1 .. Len(st) -> Nat]
  BY <1>2, <1>3
<1>5. QED
  BY <1>1, <1>3, <1>4

\* What a frame more on the stack holds is added to the total.
LEMMA HeldOfPush ==
  ASSUME NEW st, NEW f, IsSequence(st)
  PROVE  Total(Held(Append(st, f))) = Total(Held(st)) + NamesHeld(f)
<1> DEFINE t == Append(st, f)
<1>1. /\ IsSequence(t)
      /\ Len(st) \in Nat
      /\ Len(t) = Len(st) + 1
      /\ \A n \in 1 .. Len(st) : t[n] = st[n]
      /\ t[Len(st) + 1] = f
  BY AppendSequence
<1> HIDE DEF t
<1>2. /\ Held(st) \in Seq(Nat)
      /\ Len(Held(st)) = Len(st)
      /\ \A n \in 1 .. Len(st) : Held(st)[n] = NamesHeld(st[n])
  BY HeldIsSeq
<1>3. /\ Held(t) \in Seq(Nat)
      /\ Len(Held(t)) = Len(st) + 1
      /\ \A n \in 1 .. Len(st) + 1 : Held(t)[n] = NamesHeld(t[n])
  BY <1>1, HeldIsSeq
<1>4. NamesHeld(f) \in Nat
  BY DEF NamesHeld, NamesOf
<1>5. Held(t) = Append(Held(st), NamesHeld(f))
  <2> DEFINE u == Append(Held(st), NamesHeld(f))
  <2>1. /\ u \in Seq(Nat)
        /\ Len(u) = Len(st) + 1
        /\ \A n \in 1 .. Len(st) : u[n] = Held(st)[n]
        /\ u[Len(st) + 1] = NamesHeld(f)
    BY <1>1, <1>2, <1>4
  <2> HIDE DEF u
  <2>2. ASSUME NEW n \in 1 .. Len(st) + 1
        PROVE  Held(t)[n] = u[n]
    <3>1. CASE n = Len(st) + 1
      BY <3>1, <1>1, <1>3, <2>1
    <3>2. CASE n \in 1 .. Len(st)
      BY <3>2, <1>1, <1>2, <1>3, <2>1
    <3>3. QED
      BY <3>1, <3>2, <1>1
  <2>3. Held(t) = u
    BY <1>1, <1>3, <2>1, <2>2
  <2>4. QED
    BY <2>3 DEF u
<1>6. Total(Append(Held(st), NamesHeld(f))) = Total(Held(st)) + NamesHeld(f)
  BY <1>2, <1>4, TotalOfAppend
<1>7. QED
  BY <1>5, <1>6 DEF t

LEMMA Push ==
  ASSUME NEW st, NEW f, IsStack(st), IsFrame(f), f.is # "root"
  PROVE  IsStack(Append(st, f)) /\ Total(Held(Append(st, f))) = Total(Held(st)) + NamesHeld(f)
<1> DEFINE t == Append(st, f)
<1>1. /\ IsSequence(t)
      /\ Len(st) \in Nat
      /\ Len(t) = Len(st) + 1
      /\ \A n \in 1 .. Len(st) : t[n] = st[n]
      /\ t[Len(st) + 1] = f
  BY AppendSequence DEF IsStack
<1>2. t # <<>> /\ Len(st) # 0
  BY AppendNonEmpty, NonEmpty DEF IsStack
<1>3. Total(Held(t)) = Total(Held(st)) + NamesHeld(f)
  BY HeldOfPush DEF IsStack
<1> HIDE DEF t
<1>4. IsStack(t)
  BY <1>1, <1>2 DEF IsStack
<1>5. QED
  BY <1>3, <1>4 DEF t

\* A stack is what is below its top frame, and the top frame.
LEMMA TopAndRest ==
  ASSUME NEW st, IsStack(st)
  PROVE  /\ Len(st) \in Nat /\ Len(st) > 0
         /\ IsSequence(Front(st))
         /\ st = Append(Front(st), Last(st))
         /\ Len(Front(st)) = Len(st) - 1
         /\ \A n \in 1 .. Len(st) - 1 : Front(st)[n] = st[n]
         /\ IsFrame(Last(st)) /\ (Last(st).is = "root" <=> Len(st) = 1)
         /\ Total(Held(st)) = Total(Held(Front(st))) + NamesHeld(Last(st))
<1>1. Len(st) \in Nat /\ Len(st) # 0
  BY NonEmpty DEF IsStack, IsSequence
<1>2. /\ IsSequence(Front(st))
      /\ Len(Front(st)) = Len(st) - 1
      /\ \A n \in 1 .. Len(st) - 1 : Front(st)[n] = st[n]
  <2>1. Len(st) - 1 \in Nat /\ Len(st) - 1 <= Len(st)
    BY <1>1
  <2>2. IsSequence(st)
    BY DEF IsStack
  <2>3. QED
    BY <2>1, <2>2, PrefixSequence DEF Front
<1>3. st = Append(Front(st), Last(st))
  <2> DEFINE t == Append(Front(st), Last(st))
  <2>1. /\ IsSequence(t)
        /\ Len(t) = Len(st)
        /\ \A n \in 1 .. Len(st) - 1 : t[n] = st[n]
        /\ t[Len(st)] = Last(st)
    <3>1. /\ IsSequence(t)
          /\ Len(t) = Len(Front(st)) + 1
          /\ \A n \in 1 .. Len(Front(st)) : t[n] = Front(st)[n]
          /\ t[Len(Front(st)) + 1] = Last(st)
      BY <1>2, AppendSequence
    <3> HIDE DEF t
    <3>2. QED
      BY <1>1, <1>2, <3>1
  <2> HIDE DEF t
  <2>2. \A n \in 1 .. Len(st) : t[n] = st[n]
    BY <1>1, <2>1 DEF Last
  <2>3. t = st
    BY <2>1, <2>2 DEF IsStack, IsSequence
  <2>4. QED
    BY <2>3 DEF t
<1>4. IsFrame(Last(st)) /\ (Last(st).is = "root" <=> Len(st) = 1)
  BY <1>1 DEF IsStack, Last
<1>5. Total(Held(st)) = Total(Held(Front(st))) + NamesHeld(Last(st))
  BY <1>2, <1>3, HeldOfPush
<1>6. QED
  BY <1>1, <1>2, <1>3, <1>4, <1>5

\* To close a directive.
LEMMA Popped ==
  ASSUME NEW st, IsStack(st), Last(st).is # "root"
  PROVE  IsStack(Front(st))
<1>1. /\ Len(st) \in Nat /\ Len(st) > 0
      /\ IsSequence(Front(st))
      /\ Len(Front(st)) = Len(st) - 1
      /\ \A n \in 1 .. Len(st) - 1 : Front(st)[n] = st[n]
      /\ Last(st).is = "root" <=> Len(st) = 1
  BY TopAndRest
<1>2. Len(Front(st)) # 0
  BY <1>1
<1>3. Front(st) # <<>>
  BY <1>1, <1>2, NonEmpty
<1>4. QED
  BY <1>1, <1>3 DEF IsStack

\* The top frame may change in its parts.
LEMMA Retopped ==
  ASSUME NEW st, NEW f, IsStack(st), IsFrame(f), f.is = Last(st).is, f.head = Last(st).head
  PROVE  /\ IsStack(Append(Front(st), f))
         /\ Total(Held(Append(Front(st), f))) = Total(Held(st))
         /\ Len(Append(Front(st), f)) = Len(st)
         /\ Last(Append(Front(st), f)) = f
<1> DEFINE t == Append(Front(st), f)
<1>1. /\ Len(st) \in Nat /\ Len(st) > 0
      /\ IsSequence(Front(st))
      /\ Len(Front(st)) = Len(st) - 1
      /\ \A n \in 1 .. Len(st) - 1 : Front(st)[n] = st[n]
      /\ Last(st).is = "root" <=> Len(st) = 1
      /\ Total(Held(st)) = Total(Held(Front(st))) + NamesHeld(Last(st))
  BY TopAndRest
<1>2. /\ IsSequence(t)
      /\ Len(t) = Len(Front(st)) + 1
      /\ \A n \in 1 .. Len(Front(st)) : t[n] = Front(st)[n]
      /\ t[Len(Front(st)) + 1] = f
  BY <1>1, AppendSequence
<1>3. t # <<>>
  BY <1>1, AppendNonEmpty
<1>4. Total(Held(t)) = Total(Held(Front(st))) + NamesHeld(f)
  BY <1>1, HeldOfPush
<1> HIDE DEF t
<1>5. NamesHeld(f) = NamesHeld(Last(st))
  BY DEF NamesHeld
<1>6. Len(t) = Len(st) /\ t[Len(st)] = f
  BY <1>1, <1>2
<1>7. ASSUME NEW n \in 1 .. Len(t)
      PROVE  IsFrame(t[n]) /\ (t[n].is = "root" <=> n = 1)
  <2>1. CASE n = Len(st)
    BY <2>1, <1>1, <1>6
  <2>2. CASE n \in 1 .. Len(st) - 1
    BY <2>2, <1>1, <1>2 DEF IsStack
  <2>3. QED
    BY <2>1, <2>2, <1>1, <1>6
<1>8. IsStack(t)
  BY <1>2, <1>3, <1>7 DEF IsStack
<1>9. QED
  BY <1>1, <1>4, <1>5, <1>6, <1>8 DEF t, Last

LEMMA PartAdded ==
  ASSUME NEW st, NEW part, IsStack(st)
  PROVE  /\ IsStack(AddTo(st, part))
         /\ Total(Held(AddTo(st, part))) = Total(Held(st))
         /\ Len(AddTo(st, part)) = Len(st)
         /\ Last(AddTo(st, part)).is = Last(st).is
         /\ Last(AddTo(st, part)).head = Last(st).head
<1> DEFINE top == Last(st)
           f   == IF top.inElse THEN [top EXCEPT !.else = Append(@, part)]
                                ELSE [top EXCEPT !.body = Append(@, part)]
<1>1. IsFrame(top)
  BY TopAndRest
<1>2. IsFrame(f) /\ f.is = top.is /\ f.head = top.head
  BY <1>1 DEF IsFrame
<1>3. AddTo(st, part) = Append(Front(st), f)
  BY DEF AddTo
<1> HIDE DEF f
<1>4. QED
  BY <1>2, <1>3, Retopped

-----------------------------------------------------------------------------
\* Between two directives: the names that are allocated are those the frames hold,
\* and a text compiles only when the root of its tree is the one frame left.
Inv ==
  /\ IsStack(frames)
  /\ names = Total(Held(frames))
  /\ ~Compiling /\ outcome.ok => Len(frames) = 1

LEMMA InitInv == Init => Inv
<1> SUFFICES ASSUME Init PROVE Inv
  OBVIOUS
<1> DEFINE f == Frame("root", "")
<1>1. frames = <<f>> /\ names = 0 /\ outcome = <<>>
  BY DEF Init
<1>2. IsFrame(f) /\ f.is = "root"
  BY FrameFields
<1> HIDE DEF f
<1>3. IsSequence(<<f>>) /\ Len(<<f>>) = 1 /\ <<f>>[1] = f /\ <<f>> # <<>>
  BY ShortSequences
<1>4. IsStack(frames)
  BY <1>1, <1>2, <1>3 DEF IsStack
<1>5. Held(<<f>>) = Append(<<>>, 0)
  BY <1>2, <1>3 DEF Held, NamesHeld
<1>6. Total(Held(<<f>>)) = 0
  <2>1. <<>> \in Seq(Nat) /\ 0 \in Nat
    OBVIOUS
  <2>2. Total(Append(<<>>, 0)) = Total(<<>>) + 0
    BY <2>1, TotalOfAppend
  <2>3. QED
    BY <1>5, <2>2, TotalOfEmpty
<1>7. QED
  BY <1>1, <1>4, <1>6 DEF Inv, Compiling

\* What a directive finds: the frames with the literal before it.
LEMMA FlushedKeeps ==
  ASSUME Inv, NEW s
  PROVE  /\ IsStack(Flushed(s))
         /\ Total(Held(Flushed(s))) = names
         /\ Len(Flushed(s)) = Len(frames)
<1>1. IsStack(frames) /\ names = Total(Held(frames))
  BY DEF Inv
<1>2. QED
  BY <1>1, PartAdded DEF Flushed

LEMMA FlushKeeps ==
  ASSUME Inv
  PROVE  IsStack(Flush) /\ Total(Held(Flush)) = names
BY FlushedKeeps DEF Flush

LEMMA FailKeeps ==
  ASSUME Inv, NEW STATE message, Fail(message)
  PROVE  Inv'
<1>1. frames' = frames /\ names' = names /\ ~outcome'.ok
  BY DEF Fail
<1>2. QED
  BY <1>1 DEF Inv, IsStack, Compiling

\* A directive that leaves st and the names its frames hold.
LEMMA DoKeeps ==
  ASSUME Inv, Compiling, NEW STATE st, Do(st), IsStack(st), names' = Total(Held(st))
  PROVE  Inv'
<1>1. frames' = st /\ outcome' = outcome
  BY DEF Do
<1>2. QED
  BY <1>1 DEF Inv, Compiling

LEMMA NextInv == Inv /\ [Next]_vars => Inv'
<1> SUFFICES ASSUME Inv, [Next]_vars PROVE Inv'
  OBVIOUS
<1>1. CASE UNCHANGED vars
  BY <1>1 DEF Inv, vars, Compiling
<1>2. CASE ReadChar
  <2>1. frames' = frames /\ names' = names /\ outcome' = outcome
    BY <1>2 DEF ReadChar
  <2>2. QED
    BY <2>1 DEF Inv, Compiling
<1>3. CASE Malformed
  BY <1>3, FailKeeps DEF Malformed
<1>4. CASE Interpolation
  <2> DEFINE st == AddTo(Flush, Interp(Token.head))
  <2>1. IsStack(st) /\ Total(Held(st)) = names
    BY FlushKeeps, PartAdded
  <2>2. Compiling /\ Do(st) /\ names' = names
    BY <1>4 DEF Interpolation, Meets
  <2> HIDE DEF st
  <2>3. QED
    BY <2>1, <2>2, DoKeeps
<1>5. CASE OpenIf
  <2> DEFINE f  == Frame("if", Token.head)
             st == Append(Flush, f)
  <2>1. IsFrame(f) /\ f.is = "if"
    BY FrameFields
  <2>2. Compiling /\ Do(st) /\ names' = names
    BY <1>5 DEF OpenIf, Meets
  <2> HIDE DEF f
  <2>3. IsStack(st) /\ Total(Held(st)) = names + 0
    BY <2>1, FlushKeeps, Push DEF NamesHeld
  <2>4. names + 0 = names
    BY FlushKeeps, HeldIsSeq, TotalOfAppend DEF IsStack
  <2> HIDE DEF st
  <2>5. QED
    BY <2>2, <2>3, <2>4, DoKeeps
<1>6. CASE Else
  <2>1. CASE Top.is = "if" /\ ~Top.inElse
    <3> DEFINE f  == [Top EXCEPT !.inElse = TRUE]
               st == Append(Front(Flush), f)
    <3>1. Compiling /\ Do(st) /\ names' = names
      BY <1>6, <2>1 DEF Else, Meets
    <3>2. IsFrame(Top)
      BY FlushKeeps, TopAndRest DEF Top
    <3>3. IsFrame(f) /\ f.is = Last(Flush).is /\ f.head = Last(Flush).head
      BY <3>2 DEF IsFrame, Top
    <3> HIDE DEF f
    <3>4. IsStack(st) /\ Total(Held(st)) = names
      BY <3>3, FlushKeeps, Retopped
    <3> HIDE DEF st
    <3>5. QED
      BY <3>1, <3>4, DoKeeps
  <2>2. CASE ~(Top.is = "if" /\ ~Top.inElse)
    BY <1>6, <2>2, FailKeeps DEF Else
  <2>3. QED
    BY <2>1, <2>2
<1>7. CASE EndIf
  <2>1. CASE Top.is = "if"
    <3> DEFINE part == IfPart(Top.head, Template(Top.body), Template(Top.else))
               st   == AddTo(Front(Flush), part)
    <3>1. Compiling /\ Do(st) /\ names' = names
      BY <1>7, <2>1 DEF EndIf, Meets
    <3>2. IsStack(Front(Flush))
      BY <2>1, FlushKeeps, Popped DEF Top
    <3>3. names = Total(Held(Front(Flush))) + 0
      BY <2>1, FlushKeeps, TopAndRest DEF Top, NamesHeld
    <3>4. Total(Held(Front(Flush))) \in Nat
      BY <3>2, HeldIsSeq, TotalOfAppend DEF IsStack
    <3> HIDE DEF part
    <3>5. IsStack(st) /\ Total(Held(st)) = Total(Held(Front(Flush)))
      BY <3>2, PartAdded
    <3> HIDE DEF st
    <3>6. QED
      BY <3>1, <3>3, <3>4, <3>5, DoKeeps
  <2>2. CASE Top.is # "if"
    BY <1>7, <2>2, FailKeeps DEF EndIf
  <2>3. QED
    BY <2>1, <2>2
<1>8. CASE OpenFor
  <2> DEFINE f  == Frame("for", Token.head)
             st == Append(Flush, f)
  <2>1. IsFrame(f) /\ f.is = "for" /\ f.head = Token.head
    BY FrameFields
  <2>2. Compiling /\ Do(st) /\ names' = names + NamesOf(Token.head)
    BY <1>8 DEF OpenFor, Meets
  <2> HIDE DEF f
  <2>3. IsStack(st) /\ Total(Held(st)) = names + NamesOf(Token.head)
    BY <2>1, FlushKeeps, Push DEF NamesHeld
  <2> HIDE DEF st
  <2>4. QED
    BY <2>2, <2>3, DoKeeps
<1>9. CASE EndFor
  <2>1. CASE Top.is = "for"
    <3> DEFINE part == ForPart(Top.head.key, Top.head.val, Top.head.coll, Template(Top.body))
               st   == AddTo(Front(Flush), part)
    <3>1. Compiling /\ Do(st) /\ names' = names - NamesOf(Top.head)
      BY <1>9, <2>1 DEF EndFor, Meets
    <3>2. IsStack(Front(Flush))
      BY <2>1, FlushKeeps, Popped DEF Top
    <3>3. names = Total(Held(Front(Flush))) + NamesOf(Top.head)
      BY <2>1, FlushKeeps, TopAndRest DEF Top, NamesHeld
    <3>4. Total(Held(Front(Flush))) \in Nat /\ NamesOf(Top.head) \in Nat
      BY <3>2, HeldIsSeq, TotalOfAppend DEF IsStack, NamesOf
    <3> HIDE DEF part
    <3>5. IsStack(st) /\ Total(Held(st)) = Total(Held(Front(Flush)))
      BY <3>2, PartAdded
    <3> HIDE DEF st
    <3>6. names' = Total(Held(st))
      BY <3>1, <3>3, <3>4, <3>5
    <3>7. QED
      BY <3>1, <3>5, <3>6, DoKeeps
  <2>2. CASE Top.is # "for"
    BY <1>9, <2>2, FailKeeps DEF EndFor
  <2>3. QED
    BY <2>1, <2>2
<1>10. CASE Unterminated
  BY <1>10, FailKeeps DEF Unterminated
<1>11. CASE Finish
  <2>1. frames' = frames /\ names' = names /\ Len(frames) = 1
    BY <1>11 DEF Finish
  <2>2. QED
    BY <2>1 DEF Inv, IsStack, Compiling
<1>12. QED
  BY <1>1, <1>2, <1>3, <1>4, <1>5, <1>6, <1>7, <1>8, <1>9, <1>10, <1>11 DEF Next

LEMMA InvIsEnough == Inv => NamesOfOpenLoops
<1> SUFFICES ASSUME Inv, ~Compiling, outcome.ok PROVE names = 0
  BY DEF Inv, NamesOfOpenLoops
<1>1. IsStack(frames) /\ Len(frames) = 1 /\ names = Total(Held(frames))
  BY DEF Inv
<1>2. /\ IsSequence(Front(frames))
      /\ Len(Front(frames)) = 0
      /\ Last(frames).is = "root"
      /\ Total(Held(frames)) = Total(Held(Front(frames))) + NamesHeld(Last(frames))
  BY <1>1, TopAndRest
<1>3. Front(frames) = <<>>
  BY <1>2, NonEmpty
<1>4. Held(<<>>) = <<>>
  BY DEF Held
<1>5. NamesHeld(Last(frames)) = 0
  BY <1>2 DEF NamesHeld
<1>6. QED
  BY <1>1, <1>2, <1>3, <1>4, <1>5, TotalOfEmpty

\* For every text, whatever its directives and however they nest: the names that are
\* allocated are those of the loops that are open, and none is left when the text
\* compiles.
THEOREM LoopsFreeTheirNames == Spec => []NamesOfOpenLoops
<1>1. Spec => []Inv
  BY InitInv, NextInv, PTL DEF Spec
<1>2. QED
  BY <1>1, InvIsEnough, PTL
=============================================================================
