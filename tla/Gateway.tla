------------------------------- MODULE Gateway -------------------------------
(***************************************************************************)
(* One request for a route behind the key: a POST /v1/systemone from its   *)
(* headers to the call of Engine.predict, or a GET /v1/models.  These are  *)
(* system_one and models of src/laya_server/app.py, with _check_auth,      *)
(* _read_body and decode_json_body of body.py, whose zstd loop is followed *)
(* frame by frame.                                                         *)
(*                                                                         *)
(* Bytes are not modelled.  A body is its size and, when it is compressed, *)
(* the frames in it: what each decompresses to and how it ends.            *)
(***************************************************************************)
EXTENDS Integers, Sequences

CONSTANTS
    AuthEnabled,  \* LAYA_SERVER_API_KEY is set
    Limit,        \* Settings.max_body_bytes
    Inputs,       \* the requests clients may send
    Absent        \* no usable Content-Length header

Ends   == {"whole", "cut", "corrupt"}
Frames == [size : Nat, end : Ends]
Routes == {"systemone", "models"}
Tokens == {"identity", "zstd", "other"}
\* What compare_digest makes of the key that was sent: it is the one that is
\* configured or not, or one of the two has a character outside ASCII.
Keys   == {"right", "wrong", "not ascii"}

ASSUME LimitIsInteger == Limit \in Int
ASSUME AuthIsASwitch  == AuthEnabled \in BOOLEAN
\* codings are the entries of Content-Encoding; size counts the bytes as sent,
\* of which a compressed body has none exactly when it has no frame.
ASSUME InputsAreRequests ==
    \A in \in Inputs :
        /\ in \in [route : Routes, key : Keys, declared : Nat \cup {Absent}, size : Nat,
                   codings : Seq(Tokens), frames : Seq(Frames)]
        /\ in.size = 0 <=> in.frames = <<>>

VARIABLES
    input,   \* the request
    pc,      \* what the handler does next
    frame,   \* the index of the frame `remaining` starts with
    out,     \* len(out) of _unzstd
    status   \* the answer, 0 while there is none

vars == <<input, pc, frame, out, status>>

Steps == {"auth", "catalog", "headers", "body", "decode", "inflate", "parse", "schema",
          "predict", "answered"}

TypeOK ==
    /\ input \in Inputs
    /\ pc \in Steps
    /\ frame \in Nat \ {0}
    /\ out \in Nat
    /\ status \in {0, 200, 401, 422, 500}

-----------------------------------------------------------------------------

Goto(step) == pc' = step /\ UNCHANGED <<input, frame, out, status>>

\* The handler returns, or an exception leaves it.
Answer(code) ==
    /\ pc' = "answered"
    /\ status' = code
    /\ UNCHANGED <<input, frame, out>>

Init ==
    /\ input \in Inputs
    /\ pc = "auth"
    /\ frame = 1
    /\ out = 0
    /\ status = 0

\* What the handler goes on to for a caller it knows.
Admitted == Goto(IF input.route = "models" THEN "catalog" ELSE "headers")

\* Slips: another status; and the catalog for everyone.
CheckAuthOr403 ==
    /\ pc = "auth"
    /\ \/ (AuthEnabled => input.key = "right") /\ Admitted
       \/ AuthEnabled /\ input.key = "wrong" /\ Answer(403)
       \/ AuthEnabled /\ input.key = "not ascii" /\ Answer(500)
CheckAuthOfPosts ==
    /\ pc = "auth"
    /\ \/ (AuthEnabled /\ input.route = "systemone" => input.key = "right") /\ Admitted
       \/ AuthEnabled /\ input.key = "wrong" /\ Answer(401)
       \/ AuthEnabled /\ input.key = "not ascii" /\ Answer(500)
\* _check_auth; compare_digest refuses to compare text outside ASCII.
CheckAuth ==
    /\ pc = "auth"
    /\ \/ (AuthEnabled => input.key = "right") /\ Admitted
       \/ AuthEnabled /\ input.key = "wrong" /\ Answer(401)
       \/ AuthEnabled /\ input.key = "not ascii" /\ Answer(500)

\* GET /v1/models
Catalog == pc = "catalog" /\ Answer(200)

\* _read_body, before the body: a usable Content-Length that is too large.
DeclaredTooLarge == input.declared # Absent /\ input.declared > Limit

CheckDeclared ==
    /\ pc = "headers"
    /\ \/ DeclaredTooLarge /\ Answer(422)
       \/ ~DeclaredTooLarge /\ Goto("body")

\* A slip: the header is believed.
SentTooLargeAsDeclared == DeclaredTooLarge
\* _read_body, after the body has arrived: what was sent, whatever was declared.
SentTooLarge == input.size > Limit

ReadBody ==
    /\ pc = "body"
    /\ \/ SentTooLarge /\ Answer(422)
       \/ ~SentTooLarge /\ Goto("decode")

\* _codings: `identity` stands for no coding.
Significant(tokens) == SelectSeq(tokens, LAMBDA token : token # "identity")
Codings == Significant(input.codings)

\* decode_json_body: zstd alone is undone, nothing is left as it is.
ChooseDecoding ==
    /\ pc = "decode"
    /\ \/ Codings = <<"zstd">> /\ Goto("inflate")
       \/ Codings = <<>> /\ Goto("parse")
       \/ Codings \notin {<<>>, <<"zstd">>} /\ Answer(422)

-----------------------------------------------------------------------------
(* One round of the loop of _unzstd: one frame, one decompressor           *)

\* With no input at all a decompressor produces nothing and does not end.
Current ==
    IF frame <= Len(input.frames) THEN input.frames[frame]
    ELSE [size |-> 0, end |-> "cut"]

\* Slips: the cap for every frame anew; and no byte to spare.
AskPerFrame == Limit + 1
AskExactly  == Limit - out
\* The max_length argument: one byte more than may still be produced.
Ask == Limit - out + 1

\* decompress() stops at max_length; a negative one means no maximum.
Produced == IF Ask >= 0 /\ Current.size > Ask THEN Ask ELSE Current.size

\* Whether it reaches the end of the frame.  When the output fits exactly it
\* may stop before the last, empty, part of the frame or go on to it.
EndReached == IF Ask < 0 \/ Current.size < Ask THEN {TRUE}
              ELSE IF Current.size = Ask THEN BOOLEAN ELSE {FALSE}

\* A slip: the next decompressor gets the same input again.
KeepRemaining == frame' = frame
\* remaining = decompressor.unused_data
NextFrame == frame' = frame + 1

Inflate ==
    /\ pc = "inflate"
    /\ \E ended \in EndReached :
        \/ /\ ended /\ Current.end = "corrupt"          \* ZstdError
           /\ Answer(422)
        \/ /\ ~(ended /\ Current.end = "corrupt")
           /\ out' = out + Produced
           /\ UNCHANGED input
           /\ \/ /\ out' > Limit                        \* past the cap
                 /\ pc' = "answered" /\ status' = 422
                 /\ UNCHANGED frame
              \/ /\ out' <= Limit
                 /\ ~(ended /\ Current.end = "whole")   \* not decompressor.eof
                 /\ pc' = "answered" /\ status' = 422
                 /\ UNCHANGED frame
              \/ /\ out' <= Limit
                 /\ ended /\ Current.end = "whole"
                 /\ NextFrame
                 /\ pc' = IF frame < Len(input.frames) THEN "inflate" ELSE "parse"
                 /\ UNCHANGED status

-----------------------------------------------------------------------------

\* json.loads; its ValueError and RecursionError are a 422.
ParseJson == pc = "parse" /\ (Goto("schema") \/ Answer(422))

\* SystemOneRequest.model_validate.
Validate == pc = "schema" /\ (Goto("predict") \/ Answer(422))

Next == CheckAuth \/ Catalog \/ CheckDeclared \/ ReadBody \/ ChooseDecoding \/ Inflate
        \/ ParseJson \/ Validate

Spec == Init /\ [][Next]_vars

\* The handler's own code runs to its end; the body need never arrive.
FairSpec == Spec /\ WF_vars(pc # "body" /\ Next)

-----------------------------------------------------------------------------
(* What decoding is meant to do                                            *)

\* The bytes in the first n frames of fs.
Total(fs, n) ==
    LET sum[k \in 0..n] == IF k = 0 THEN 0 ELSE sum[k - 1] + fs[k].size
    IN  sum[n]

\* A body may be used: it is within the limit as declared, as sent and once
\* decoded, and it is not coded or is one or more whole zstd frames.
Usable(in) ==
    LET codings == Significant(in.codings)
        n       == Len(in.frames)
    IN  /\ in.declared = Absent \/ in.declared <= Limit
        /\ in.size <= Limit
        /\ \/ codings = <<>>
           \/ /\ codings = <<"zstd">>
              /\ n > 0
              /\ \A i \in 1..n : in.frames[i].end = "whole"
              /\ Total(in.frames, n) <= Limit

-----------------------------------------------------------------------------
(* Properties                                                              *)

\* A caller without the key is answered before anything of its body is read,
\* never in a way that depends on the body, and never with the catalog
\* (system_one and models in app.py).
BodyHiddenFromStrangers ==
    AuthEnabled /\ input.key # "right" =>
        pc \in {"auth", "answered"} /\ status \in {0, 401, 500}

\* A key that is wrong or missing gets a 401 (README.md, LAYA_SERVER_API_KEY).
WrongKeyGets401 ==
    AuthEnabled /\ input.key # "right" /\ pc = "answered" => status = 401

\* "The output is never allowed past `limit + 1` bytes", over all the frames
\* of a body together (_unzstd in body.py).
OutputCapped == out > 0 => out <= Limit + 1

\* Decompression always has a positive maximum: zero would never reach the end
\* of a frame, and a negative max_length means none at all (_unzstd).
AskIsPositive == pc = "inflate" => Ask > 0

\* What reaches json.loads is usable, and is the whole of what was sent
\* (_read_body and decode_json_body, which check it in pieces and in a loop).
OnlyUsableIsParsed ==
    pc \in {"parse", "schema", "predict"} =>
        /\ Usable(input)
        /\ Codings = <<"zstd">> => out = Total(input.frames, Len(input.frames))

\* No usable body is refused on the way: in particular one that decodes to
\* exactly the limit, in one frame or in several (_read_body, _unzstd).
UsableIsNotRefused ==
    [][(pc \in {"headers", "body", "decode", "inflate"} /\ pc' = "answered")
           => ~Usable(input)]_vars

\* Decoding ends on every body (the `while True` of _unzstd).
DecodingEnds == pc = "decode" ~> pc \in {"predict", "answered"}

\* What makes the bounds inductive: only a body within the limit is decoded,
\* and the loop goes on only below the cap.
IInv ==
    /\ TypeOK
    /\ OutputCapped
    /\ pc \in {"decode", "inflate"} => input.size <= Limit
    /\ pc \in {"auth", "catalog", "headers", "body", "decode"} => out = 0
    /\ pc = "inflate" => out <= Limit

\* What makes the decoding right: the checks behind the handler, and of a
\* compressed body the frames behind it, which are whole and all that is in out.
Behind ==
    /\ pc \in {"body", "decode", "inflate"} => input.declared = Absent \/ input.declared <= Limit
    /\ pc \in {"auth", "catalog", "headers", "body", "decode"} => frame = 1
    /\ pc = "inflate" =>
        /\ Codings = <<"zstd">>
        /\ frame = 1 \/ frame <= Len(input.frames)
        /\ \A i \in 1..(frame - 1) : input.frames[i].end = "whole"
        /\ out = Total(input.frames, frame - 1)

=============================================================================
