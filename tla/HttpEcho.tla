------------------------------ MODULE HttpEcho ------------------------------
(***************************************************************************)
(* The lengths process_request (thread_pool.c) computes for its echo       *)
(* response.  snprintf returns the length of the whole text but stores at  *)
(* most one byte less than the array holds, so what a length says and what *)
(* is there can differ.  n is the number of bytes %.*s copies: those of    *)
(* the task's data up to the first NUL, at most BUFFER_SIZE, the most one  *)
(* read of handle_read can return.                                         *)
(***************************************************************************)
EXTENDS Integers, TLAPS

BUFFER_SIZE == 4096   \* common.h; also the size of response and of write_buf
BodySize == 1024      \* char body[1024]

Lengths == 0 .. BUFFER_SIZE

\* What snprintf leaves in an array of the given size, without the NUL.
Stored(size, len) == IF len < size THEN len ELSE size - 1

\* body_len: "Echo: " and the data.
BodyLen(n) == 6 + n

\* The body that is sent.
BodySent(n) == Stored(BodySize, BodyLen(n))

Digits(k) == IF k < 10 THEN 1 ELSE IF k < 100 THEN 2 ELSE IF k < 1000 THEN 3 ELSE 4

\* response_len: the fixed parts of the template, Content-Length's digits and
\* the body.
ResponseLen(n) == 17 + 26 + (16 + Digits(BodyLen(n)) + 2) + 24 + 2 + BodySent(n)

\* The test before the response is copied to write_buf.
Accepted(n) == ResponseLen(n) > 0 /\ ResponseLen(n) < BUFFER_SIZE

-----------------------------------------------------------------------------
\* The test of process_request never fails: whatever was read, the response
\* fits into its array and into write_buf, nothing of it is cut off, and every
\* task leads to a response.
THEOREM ResponseFits == \A n \in Lengths : Accepted(n) /\ Stored(BUFFER_SIZE, ResponseLen(n)) = ResponseLen(n)
  <1> SUFFICES ASSUME NEW n \in Lengths
               PROVE  Accepted(n) /\ Stored(BUFFER_SIZE, ResponseLen(n)) = ResponseLen(n)
      OBVIOUS
  <1>1. n \in Int /\ 0 <= n /\ n <= 4096
      BY DEF Lengths, BUFFER_SIZE
  <1>2. BodyLen(n) \in Int /\ BodyLen(n) >= 6
      BY <1>1 DEF BodyLen
  <1>3. BodySent(n) \in Int /\ 6 <= BodySent(n) /\ BodySent(n) <= 1023
      BY <1>2 DEF BodySent, Stored, BodySize
  <1>4. Digits(BodyLen(n)) \in 1 .. 4
      BY <1>2 DEF Digits
  <1>5. ResponseLen(n) \in Int /\ 94 <= ResponseLen(n) /\ ResponseLen(n) <= 1114
      BY <1>3, <1>4 DEF ResponseLen
  <1> QED
      BY <1>5 DEF Accepted, Stored, BUFFER_SIZE

\* Content-Length announces what is sent exactly for at most 1017 bytes of data;
\* beyond that process_request announces more than the 1023 bytes that follow,
\* up to 3079 more, and the client waits for them.
THEOREM AnnouncedIsSent ==
    \A n \in Lengths : /\ (BodyLen(n) = BodySent(n)) <=> (n <= 1017)
                       /\ n > 1017 => BodyLen(n) - BodySent(n) \in 1 .. 3079
  <1> SUFFICES ASSUME NEW n \in Lengths
               PROVE  /\ (BodyLen(n) = BodySent(n)) <=> (n <= 1017)
                      /\ n > 1017 => BodyLen(n) - BodySent(n) \in 1 .. 3079
      OBVIOUS
  <1>1. n \in Int /\ 0 <= n /\ n <= 4096
      BY DEF Lengths, BUFFER_SIZE
  <1>2. BodySent(n) = IF n <= 1017 THEN 6 + n ELSE 1023
      BY <1>1 DEF BodySent, BodyLen, Stored, BodySize
  <1> QED
      BY <1>1, <1>2 DEF BodyLen
=============================================================================
