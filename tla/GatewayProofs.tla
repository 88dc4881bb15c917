---------------------------- MODULE GatewayProofs ----------------------------
(***************************************************************************)
(* Proofs about Gateway for every limit and every body: any number of      *)
(* frames, of any sizes.                                                   *)
(***************************************************************************)
EXTENDS Gateway, Induction

\* What the types of the inputs say of one request.
LEMMA InputTypes ==
    ASSUME TypeOK
    PROVE  /\ input.size \in Nat
           /\ input.frames \in Seq(Frames)
           /\ input.key \in Keys
BY InputsAreRequests DEF TypeOK

\* The frame at hand has a size, also when the input has run out.
LEMMA CurrentSize == ASSUME TypeOK PROVE Current.size \in Nat
<1>1. CASE frame <= Len(input.frames)
  <2>1. frame \in 1..Len(input.frames) /\ input.frames \in Seq(Frames)
    BY <1>1, InputTypes DEF TypeOK
  <2>2. input.frames[frame] \in Frames
    BY <2>1
  <2> QED
    BY <1>1, <2>2 DEF Current, Frames
<1>2. CASE ~(frame <= Len(input.frames))
  BY <1>2 DEF Current
<1> QED
  BY <1>1, <1>2

\* A decompressor never produces more than it was asked for, if that was a
\* maximum at all; below the cap there is always one.
LEMMA ProducedWithinCap ==
    ASSUME TypeOK, out <= Limit
    PROVE  Ask > 0 /\ Produced \in Nat /\ out + Produced <= Limit + 1
<1>1. Ask = Limit - out + 1 /\ Ask \in Int /\ Ask > 0
  BY LimitIsInteger DEF TypeOK, Ask
<1>2. Current.size \in Nat
  BY CurrentSize
<1>3. Produced = IF Current.size > Ask THEN Ask ELSE Current.size
  BY <1>1 DEF Produced
<1> QED
  BY <1>1, <1>2, <1>3, LimitIsInteger DEF TypeOK

\* The invariant holds before the headers are looked at.
LEMMA InitInv == Init => IInv
BY DEF Init, IInv, TypeOK, Steps, OutputCapped

\* A round of the loop adds to the output at most what is left below the cap.
LEMMA InflatePreserves == ASSUME IInv, Inflate PROVE IInv'
<1>1. /\ pc = "inflate" /\ TypeOK /\ out <= Limit /\ OutputCapped
  BY DEF IInv, Inflate
<1>2. out + Produced \in Nat /\ out + Produced <= Limit + 1
  BY <1>1, ProducedWithinCap, LimitIsInteger DEF TypeOK
<1>3. CASE Answer(422)
  BY <1>1, <1>3 DEF Answer, IInv, TypeOK, Steps, OutputCapped
<1>4. CASE /\ out' = out + Produced /\ input' = input
           /\ pc' = "answered" /\ status' = 422 /\ frame' = frame
  BY <1>1, <1>2, <1>4 DEF IInv, TypeOK, Steps, OutputCapped
<1>5. CASE /\ out' = out + Produced /\ input' = input
           /\ out' <= Limit /\ NextFrame
           /\ pc' \in {"inflate", "parse"} /\ status' = status
  <2>1. TypeOK'
    BY <1>1, <1>2, <1>5 DEF TypeOK, Steps, NextFrame
  <2>2. OutputCapped'
    BY <1>2, <1>5 DEF OutputCapped
  <2> QED
    BY <1>1, <1>5, <2>1, <2>2 DEF IInv
<1> QED
  BY <1>3, <1>4, <1>5 DEF Inflate

\* Every step of the handler keeps the invariant.
LEMMA NextInv == IInv /\ [Next]_vars => IInv'
<1> SUFFICES ASSUME IInv, [Next]_vars PROVE IInv'
  OBVIOUS
<1>0. CheckAuth => /\ pc = "auth"
                   /\ \/ Goto("headers") \/ Goto("catalog")
                      \/ Answer(401) \/ Answer(500)
  BY Zenon DEF CheckAuth, Admitted
<1> USE DEF IInv, TypeOK, Steps, OutputCapped, Goto, Answer
<1>1. CASE CheckAuth
  BY <1>0, <1>1
<1>2. CASE CheckDeclared
  BY <1>2 DEF CheckDeclared
<1>3. CASE ReadBody
  BY <1>3, InputTypes, LimitIsInteger DEF ReadBody, SentTooLarge
<1>4. CASE ChooseDecoding
  BY <1>4, InputTypes, LimitIsInteger DEF ChooseDecoding
<1>5. CASE Inflate
  BY <1>5, InflatePreserves
<1>6. CASE Catalog \/ ParseJson \/ Validate
  BY <1>6 DEF Catalog, ParseJson, Validate
<1>7. CASE UNCHANGED vars
  BY <1>7 DEF vars
<1> QED
  BY <1>1, <1>2, <1>3, <1>4, <1>5, <1>6, <1>7 DEF Next

\* The invariant holds of every request, whatever its headers and its body.
THEOREM Invariance == Spec => []IInv
BY InitInv, NextInv, PTL DEF Spec

\* Every variable keeps its type.
THEOREM TypeCorrect == Spec => []TypeOK
<1>1. IInv => TypeOK
  BY DEF IInv
<1> QED
  BY <1>1, Invariance, PTL

\* However many frames a body has, decompressing it never produces more than
\* one byte past the limit (_unzstd in body.py).
THEOREM DecompressionCapped == Spec => []OutputCapped
<1>1. IInv => OutputCapped
  BY DEF IInv
<1> QED
  BY <1>1, Invariance, PTL

\* No decompressor is ever run without a maximum, or with a maximum of zero.
THEOREM AlwaysBounded == Spec => []AskIsPositive
<1>1. IInv => AskIsPositive
  BY ProducedWithinCap DEF IInv, AskIsPositive
<1> QED
  BY <1>1, Invariance, PTL

\* Nothing of a body is read for a caller without the key (_check_auth runs
\* first in system_one of app.py).
THEOREM StrangersLearnNothing == Spec => []BodyHiddenFromStrangers
<1>1. Init => BodyHiddenFromStrangers
  BY DEF Init, BodyHiddenFromStrangers
<1>2. BodyHiddenFromStrangers /\ [Next]_vars => BodyHiddenFromStrangers'
  <2> SUFFICES ASSUME AuthEnabled, input.key # "right", input' = input,
                      pc \in {"auth", "answered"}, status \in {0, 401, 500},
                      [Next]_vars
               PROVE  pc' \in {"auth", "answered"} /\ status' \in {0, 401, 500}
    <3>1. [Next]_vars => input' = input
      BY DEF Next, CheckAuth, Admitted, Catalog, CheckDeclared, ReadBody, ChooseDecoding, Inflate, ParseJson,
             Validate, Goto, Answer, vars
    <3> QED
      BY <3>1 DEF BodyHiddenFromStrangers
  <2>1. CASE CheckAuth
    BY <2>1 DEF CheckAuth, Admitted, Goto, Answer
  <2>2. CASE UNCHANGED vars
    BY <2>2 DEF vars
  <2>3. ~(Catalog \/ CheckDeclared \/ ReadBody \/ ChooseDecoding \/ Inflate \/ ParseJson \/ Validate)
    BY DEF Catalog, CheckDeclared, ReadBody, ChooseDecoding, Inflate, ParseJson, Validate
  <2> QED
    BY <2>1, <2>2, <2>3 DEF Next
<1> QED
  BY <1>1, <1>2, PTL DEF Spec

-----------------------------------------------------------------------------
(* Sums over frames                                                        *)

\* The sums behind Total: a function that starts at 0 and adds frame by frame.
LEMMA TotalIsASum ==
    ASSUME NEW fs \in Seq(Frames), NEW n \in 0..Len(fs)
    PROVE  \E s \in [0..n -> Nat] :
               s[0] = 0 /\ (\A k \in 1..n : s[k] = s[k - 1] + fs[k].size) /\ Total(fs, n) = s[n]
<1> DEFINE sum == CHOOSE f : f = [k \in 0..n |-> IF k = 0 THEN 0 ELSE f[k - 1] + fs[k].size]
           next == [x \in Nat \X (1..n) |-> x[1] + fs[x[2]].size]
<1>0. n \in Nat /\ 0 \in Nat
  OBVIOUS
<1>1. Total(fs, n) = sum[n]
  BY DEF Total
<1>2. \A k \in 1..n : fs[k].size \in Nat
  <2>1. \A k \in 1..n : fs[k] \in Frames
    <3>1. \A k \in 1..n : k \in 1..Len(fs)
      OBVIOUS
    <3> QED
      BY <3>1
  <2> QED
    BY <2>1 DEF Frames
<1>3. next \in [Nat \X (1..n) -> Nat]
  BY <1>2
<1>4. PICK f \in [0..n -> Nat] : Unfolds(f, n, 0, next)
  <2> HIDE DEF next
  <2> QED
    BY <1>0, <1>3, Recursion
<1>5. \A k \in 1..n : f[k] = f[k - 1] + fs[k].size
  <2> TAKE k \in 1..n
  <2>1. f[k - 1] \in Nat
    OBVIOUS
  <2> QED
    BY <1>4, <2>1 DEF Unfolds
<1>6. f = [k \in 0..n |-> IF k = 0 THEN 0 ELSE f[k - 1] + fs[k].size]
  BY <1>4, <1>5 DEF Unfolds
<1>7. sum = [k \in 0..n |-> IF k = 0 THEN 0 ELSE sum[k - 1] + fs[k].size]
  <2> HIDE DEF sum
  <2>1. \E g : g = [k \in 0..n |-> IF k = 0 THEN 0 ELSE g[k - 1] + fs[k].size]
    BY <1>6
  <2> QED
    BY <2>1 DEF sum
<1> HIDE DEF sum
<1>8. sum[0] = 0 /\ \A k \in 1..n : sum[k] = sum[k - 1] + fs[k].size
  BY <1>7
<1>9. sum \in [0..n -> Nat]
  <2> DEFINE S == {k \in 0..n : sum[k] \in Nat}
  <2>1. 0 \in S
    BY <1>8
  <2>2. ASSUME NEW k \in 1..n, k - 1 \in S PROVE k \in S
    <3>1. sum[k - 1] \in Nat /\ fs[k].size \in Nat /\ sum[k] = sum[k - 1] + fs[k].size
      BY <1>2, <1>8, <2>2
    <3>2. sum[k] \in Nat
      BY <3>1
    <3> QED
      BY <3>2
  <2>3. 0..n \subseteq S
    <3>1. n \in Nat
      OBVIOUS
    <3> HIDE DEF S
    <3> QED
      BY <2>1, <2>2, <3>1, InductionUpTo
  <2> QED
    BY <1>7, <2>3
<1> QED
  BY <1>1, <1>8, <1>9

\* Total is 0 of no frame, and grows by the size of each.
LEMMA TotalByFrame ==
    ASSUME NEW fs \in Seq(Frames), NEW n \in 0..Len(fs)
    PROVE  /\ Total(fs, n) \in Nat
           /\ n = 0 => Total(fs, n) = 0
           /\ n > 0 => Total(fs, n) = Total(fs, n - 1) + fs[n].size
<1>1. PICK s \in [0..n -> Nat] :
        s[0] = 0 /\ (\A k \in 1..n : s[k] = s[k - 1] + fs[k].size) /\ Total(fs, n) = s[n]
  BY TotalIsASum
<1>2. Total(fs, n) \in Nat /\ (n = 0 => Total(fs, n) = 0)
  BY <1>1
<1>3. ASSUME n > 0 PROVE Total(fs, n) = Total(fs, n - 1) + fs[n].size
  <2>0. n - 1 \in 0..Len(fs)
    BY <1>3
  <2>1. PICK t \in [0..(n - 1) -> Nat] :
          /\ t[0] = 0 /\ \A k \in 1..(n - 1) : t[k] = t[k - 1] + fs[k].size
          /\ Total(fs, n - 1) = t[n - 1]
    BY <2>0, TotalIsASum
  <2> DEFINE S == {k \in 0..(n - 1) : s[k] = t[k]}
  <2>2. 0 \in S
    BY <1>1, <2>0, <2>1
  <2>3. ASSUME NEW k \in 1..(n - 1), k - 1 \in S PROVE k \in S
    BY <1>1, <2>1, <2>3
  <2>4. 0..(n - 1) \subseteq S
    <3>1. n - 1 \in Nat
      BY <2>0
    <3> HIDE DEF S
    <3> QED
      BY <2>2, <2>3, <3>1, InductionUpTo
  <2> QED
    BY <1>1, <1>3, <2>1, <2>4
<1> QED
  BY <1>2, <1>3

\* The frames up to one are never more than all of them.
LEMMA TotalGrows ==
    ASSUME NEW fs \in Seq(Frames), NEW m \in 0..Len(fs)
    PROVE  Total(fs, m) <= Total(fs, Len(fs))
<1> DEFINE S == {k \in 0..Len(fs) : k >= m => Total(fs, m) <= Total(fs, k)}
<1>1. 0 \in S
  BY TotalByFrame
<1>2. ASSUME NEW k \in 1..Len(fs), k - 1 \in S PROVE k \in S
  <2>0. fs[k] \in Frames
    OBVIOUS
  <2>1. fs[k].size \in Nat
    BY <2>0 DEF Frames
  <2>2. k - 1 \in 0..Len(fs) /\ k \in 0..Len(fs)
    OBVIOUS
  <2>3. Total(fs, k) = Total(fs, k - 1) + fs[k].size /\ Total(fs, k - 1) \in Nat
    BY <2>2, TotalByFrame
  <2>4. Total(fs, m) \in Nat
    BY TotalByFrame
  <2> QED
    BY <1>2, <2>1, <2>2, <2>3, <2>4
<1>3. 0..Len(fs) \subseteq S
  <2>1. Len(fs) \in Nat
    OBVIOUS
  <2> HIDE DEF S
  <2> QED
    BY <1>1, <1>2, <2>1, InductionUpTo
<1> QED
  BY <1>3

-----------------------------------------------------------------------------
(* What is parsed is what was sent                                         *)

\* Usable, in terms of what the handler computes.
LEMMA UsableMeans ==
    Usable(input) <=>
        /\ input.declared = Absent \/ input.declared <= Limit
        /\ input.size <= Limit
        /\ \/ Codings = <<>>
           \/ /\ Codings = <<"zstd">>
              /\ Len(input.frames) > 0
              /\ \A i \in 1..Len(input.frames) : input.frames[i].end = "whole"
              /\ Total(input.frames, Len(input.frames)) <= Limit
BY Zenon DEF Usable, Codings

\* No step changes the request.
LEMMA InputStays == [Next]_vars => input' = input
BY DEF Next, CheckAuth, Admitted, Catalog, CheckDeclared, ReadBody, ChooseDecoding, Inflate,
       ParseJson, Validate, Goto, Answer, vars

\* A round that goes on has had the whole of a frame that was sent.
LEMMA RoundIsAFrame ==
    ASSUME IInv, Behind, pc = "inflate", NEW ended \in EndReached,
           ended, Current.end = "whole", out + Produced <= Limit
    PROVE  /\ frame \in 1..Len(input.frames)
           /\ input.frames[frame].end = "whole"
           /\ out + Produced = Total(input.frames, frame)
<1>1. TypeOK /\ out <= Limit /\ out \in Nat /\ frame \in Nat \ {0}
  BY DEF IInv, TypeOK
<1>2. input.frames \in Seq(Frames) /\ Len(input.frames) \in Nat
  BY <1>1, InputTypes
<1>3. frame <= Len(input.frames)
  BY <1>1, <1>2 DEF Current
<1>4. frame \in 1..Len(input.frames) /\ Current = input.frames[frame]
  BY <1>1, <1>2, <1>3 DEF Current
<1>5. Current.size \in Nat /\ Ask = Limit - out + 1 /\ Ask > 0
  BY <1>1, CurrentSize, ProducedWithinCap DEF Ask
<1>6. Produced = Current.size
  BY <1>1, <1>5, LimitIsInteger DEF Produced
<1>7. Total(input.frames, frame) = Total(input.frames, frame - 1) + input.frames[frame].size
  BY <1>2, <1>4, TotalByFrame
<1> QED
  BY <1>4, <1>6, <1>7 DEF Behind

\* A round keeps what is behind the handler, and ends in the whole of the body.
LEMMA InflateKeepsBehind ==
    ASSUME IInv, Behind, Inflate
    PROVE  Behind' /\ OnlyUsableIsParsed'
<1>1. pc = "inflate" /\ TypeOK /\ input' = input /\ Codings' = Codings
  BY InputStays DEF IInv, Inflate, Next, Codings
<1>2. CASE pc' = "answered"
  BY <1>2 DEF Behind, OnlyUsableIsParsed
<1>3. CASE pc' # "answered"
  <2>1. PICK ended \in EndReached :
          /\ out' = out + Produced /\ out' <= Limit
          /\ ended /\ Current.end = "whole"
          /\ frame' = frame + 1
          /\ pc' = IF frame < Len(input.frames) THEN "inflate" ELSE "parse"
    BY <1>3 DEF Inflate, Answer, NextFrame
  <2>2. /\ frame \in 1..Len(input.frames)
        /\ input.frames[frame].end = "whole"
        /\ out' = Total(input.frames, frame)
    BY <1>1, <2>1, RoundIsAFrame
  <2>3. \A i \in 1..frame : input.frames[i].end = "whole"
    BY <1>1, <2>2 DEF Behind, TypeOK
  <2>4. Codings = <<"zstd">> /\ (input.declared = Absent \/ input.declared <= Limit)
    BY <1>1 DEF Behind
  <2>5. frame + 1 - 1 = frame /\ Len(input.frames) \in Nat
    BY <1>1, InputTypes DEF TypeOK
  <2>6. CASE frame < Len(input.frames)
    BY <1>1, <2>1, <2>2, <2>3, <2>4, <2>5, <2>6 DEF Behind, OnlyUsableIsParsed
  <2>7. CASE ~(frame < Len(input.frames))
    <3>1. frame = Len(input.frames) /\ pc' = "parse"
      BY <2>1, <2>2, <2>5, <2>7
    <3>2. Usable(input)
      BY <1>1, <2>1, <2>2, <2>3, <2>4, <2>5, <3>1, UsableMeans DEF IInv
    <3> QED
      BY <1>1, <2>2, <3>1, <3>2 DEF Behind, OnlyUsableIsParsed
  <2> QED
    BY <2>6, <2>7
<1> QED
  BY <1>2, <1>3

\* Every step keeps what is behind the handler.
LEMMA NextKeepsBehind ==
    IInv /\ Behind /\ OnlyUsableIsParsed /\ [Next]_vars => Behind' /\ OnlyUsableIsParsed'
<1> SUFFICES ASSUME IInv, Behind, OnlyUsableIsParsed, [Next]_vars
             PROVE  Behind' /\ OnlyUsableIsParsed'
  OBVIOUS
<1>1. input' = input /\ Codings' = Codings
  BY InputStays DEF Codings
<1>2. CASE pc' = "answered"
  BY <1>2 DEF Behind, OnlyUsableIsParsed
<1>3. CASE CheckAuth /\ pc' # "answered"
  BY <1>1, <1>3 DEF CheckAuth, Admitted, Goto, Answer, Behind, OnlyUsableIsParsed
<1>4. CASE CheckDeclared /\ pc' # "answered"
  <2>1. input.declared = Absent \/ input.declared <= Limit
    <3>1. input.declared \in Nat \cup {Absent}
      BY InputsAreRequests DEF IInv, TypeOK
    <3> QED
      BY <1>4, <3>1, LimitIsInteger DEF CheckDeclared, DeclaredTooLarge, Answer
  <2> QED
    BY <1>1, <1>4, <2>1 DEF CheckDeclared, Goto, Answer, Behind, OnlyUsableIsParsed
<1>5. CASE ReadBody /\ pc' # "answered"
  BY <1>1, <1>5 DEF ReadBody, Goto, Answer, Behind, OnlyUsableIsParsed
<1>6. CASE ChooseDecoding /\ pc' # "answered"
  <2>1. /\ pc = "decode" /\ frame = 1 /\ out = 0 /\ frame' = frame /\ out' = out
        /\ input.declared = Absent \/ input.declared <= Limit
        /\ input.size <= Limit
    BY <1>6 DEF ChooseDecoding, Goto, Answer, Behind, IInv
  <2>2. CASE Codings = <<"zstd">> /\ pc' = "inflate"
    <3>1. Total(input.frames, 0) = 0
      <4>1. input.frames \in Seq(Frames) /\ 0 \in 0..Len(input.frames)
        BY InputTypes DEF IInv
      <4> QED
        BY <4>1, TotalByFrame
    <3> QED
      BY <1>1, <2>1, <2>2, <3>1 DEF Behind, OnlyUsableIsParsed
  <2>3. CASE Codings = <<>> /\ pc' = "parse"
    <3>1. Usable(input)
      BY <2>1, <2>3, UsableMeans
    <3>2. <<>> # <<"zstd">>
      OBVIOUS
    <3> QED
      BY <1>1, <2>1, <2>3, <3>1, <3>2 DEF Behind, OnlyUsableIsParsed
  <2> QED
    BY <1>6, <2>2, <2>3 DEF ChooseDecoding, Goto, Answer
<1>7. CASE Inflate
  BY <1>7, InflateKeepsBehind
<1>8. CASE (ParseJson \/ Validate \/ UNCHANGED vars) /\ pc' # "answered"
  BY <1>1, <1>8 DEF ParseJson, Validate, Goto, Answer, vars, Behind, OnlyUsableIsParsed
<1> QED
  BY <1>2, <1>3, <1>4, <1>5, <1>6, <1>7, <1>8 DEF Next, Catalog, Answer

\* Nothing is behind the handler when it begins.
LEMMA InitBehind == Init => Behind /\ OnlyUsableIsParsed
BY DEF Init, Behind, OnlyUsableIsParsed

\* What reaches json.loads is usable, and of a compressed body it is all of
\* what its frames hold (_read_body, decode_json_body and the loop of _unzstd).
THEOREM OnlyWholeBodiesPass == Spec => []OnlyUsableIsParsed
BY InitInv, NextInv, InitBehind, NextKeepsBehind, PTL DEF Spec

\* A round that ends in an answer has met a frame that is not whole, or the cap.
LEMMA RefusedInARound ==
    ASSUME IInv, Behind, Inflate, pc' = "answered"
    PROVE  ~Usable(input)
<1> SUFFICES ASSUME Usable(input) PROVE FALSE
  OBVIOUS
<1>1. /\ pc = "inflate" /\ TypeOK /\ out <= Limit
      /\ out \in Nat /\ frame \in Nat \ {0}
  BY DEF IInv, Inflate, TypeOK
<1>2. input.frames \in Seq(Frames) /\ Len(input.frames) \in Nat
  BY <1>1, InputTypes
<1>3. /\ Len(input.frames) > 0
      /\ \A i \in 1..Len(input.frames) : input.frames[i].end = "whole"
      /\ Total(input.frames, Len(input.frames)) <= Limit
  <2>1. Codings = <<"zstd">> /\ <<"zstd">> # <<>>
    BY <1>1 DEF Behind
  <2> QED
    BY <2>1, UsableMeans
<1>4. frame \in 1..Len(input.frames)
  BY <1>1, <1>2, <1>3 DEF Behind
<1>5. /\ Current = input.frames[frame] /\ Current.end = "whole"
      /\ Current.size \in Nat /\ Ask = Limit - out + 1 /\ Ask > 0
  BY <1>1, <1>3, <1>4, CurrentSize, ProducedWithinCap DEF Current, Ask
<1>6. out + Current.size <= Limit
  <2>1. /\ Total(input.frames, frame) = Total(input.frames, frame - 1) + input.frames[frame].size
        /\ Total(input.frames, frame) <= Total(input.frames, Len(input.frames))
        /\ Total(input.frames, frame) \in Nat /\ Total(input.frames, Len(input.frames)) \in Nat
    BY <1>2, <1>4, TotalByFrame, TotalGrows
  <2>2. out = Total(input.frames, frame - 1)
    BY <1>1 DEF Behind
  <2> QED
    BY <1>3, <1>5, <2>1, <2>2, LimitIsInteger
<1>7. Produced = Current.size /\ EndReached = {TRUE}
  <2>1. Current.size < Ask /\ Ask >= 0 /\ ~(Current.size > Ask)
    BY <1>1, <1>5, <1>6, LimitIsInteger
  <2>2. Produced = Current.size
    BY <2>1 DEF Produced
  <2>3. EndReached = {TRUE}
    BY <2>1 DEF EndReached
  <2> QED
    BY <2>2, <2>3
<1>8. pc' # "answered"
  <2>1. ~(out + Produced > Limit)
    BY <1>1, <1>5, <1>6, <1>7, LimitIsInteger
  <2>2. PICK ended \in EndReached :
          \/ ended /\ Current.end = "corrupt"
          \/ ~(ended /\ Current.end = "corrupt") /\ ~(out + Produced <= Limit)
          \/ ~(ended /\ Current.end = "whole")
          \/ pc' = IF frame < Len(input.frames) THEN "inflate" ELSE "parse"
    BY <2>1, LimitIsInteger DEF Inflate, TypeOK
  <2> QED
    BY <1>1, <1>5, <1>6, <1>7, <2>2, LimitIsInteger
<1> QED
  BY <1>8

\* No usable body is refused on the way, one that fills the limit to the last
\* byte included, in however many frames (_read_body, _unzstd).
THEOREM NoUsableBodyIsRefused == Spec => UsableIsNotRefused
<1> DEFINE Refused == pc \in {"headers", "body", "decode", "inflate"} /\ pc' = "answered"
<1>1. IInv /\ Behind /\ [Next]_vars => [Refused => ~Usable(input)]_vars
  <2> SUFFICES ASSUME IInv, Behind, Next, Refused, Usable(input) PROVE FALSE
    OBVIOUS
  <2>1. pc \in {"headers", "body", "decode", "inflate"} /\ pc' = "answered"
    OBVIOUS
  <2>2. /\ input.declared = Absent \/ input.declared <= Limit
        /\ input.size <= Limit
        /\ Codings \in {<<>>, <<"zstd">>}
    BY UsableMeans
  <2>3. CASE CheckDeclared
    <3>1. input.declared \in Nat \cup {Absent}
      BY InputsAreRequests DEF IInv, TypeOK
    <3> QED
      BY <2>1, <2>2, <2>3, <3>1, LimitIsInteger DEF CheckDeclared, DeclaredTooLarge, Goto
  <2>4. CASE ReadBody
    BY <2>1, <2>2, <2>4, InputTypes, LimitIsInteger DEF ReadBody, SentTooLarge, Goto, Answer, IInv, TypeOK
  <2>5. CASE ChooseDecoding
    BY <2>1, <2>2, <2>5 DEF ChooseDecoding, Goto
  <2>6. CASE Inflate
    BY <2>6, RefusedInARound
  <2> QED
    BY <2>1, <2>3, <2>4, <2>5, <2>6 DEF Next, CheckAuth, Catalog, ParseJson, Validate
<1> QED
  BY <1>1, InitInv, NextInv, InitBehind, NextKeepsBehind, PTL DEF Spec, UsableIsNotRefused

=============================================================================
