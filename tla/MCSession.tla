----------------------------- MODULE MCSession -----------------------------
(***************************************************************************)
(* Server sessions small enough for TLC: names of at most one character,   *)
(* two bytes of credentials, one byte for the length of a limited string.  *)
(***************************************************************************)
EXTENDS SessionClients

HelloMsg(enc) == <<HelloHi, HelloLo, 0, enc>>
AuthMsg(text, cred) == <<AuthMagic>> \o text \o cred
SqlMsg(text) == <<SqlMagic>> \o text

A == 65         \* a valid character
X == 200        \* one the encoding rejects

(* Credentials are the bytes of a hash and may be any: here they look like *)
(* the types of other messages.                                            *)
Hash == <<GoodbyeMagic, AuthMagic>>
OtherHash == <<SqlMagic, 0>>

(* As psql names users, and with a known encoding.                         *)
UsualMsgs ==
  {HelloMsg(1),
   AuthMsg(<<UText, 1, A, 0>>, Hash), AuthMsg(<<LText, 1, 1, A, 0>>, OtherHash),
   SqlMsg(<<UText, 1, A, 2, A, A, 0>>), SqlMsg(<<UText, 0>>),
   <<CancelMagic>>, <<GoodbyeMagic>>}

(* Names the server refuses, at every point where it can find out.         *)
RefusedNames ==
  {AuthMsg(<<UText, 0>>, OtherHash),
   AuthMsg(<<UText, 2, A, A, 0>>, OtherHash),
   AuthMsg(<<LText, 3, 2, A, A, 1, A, 0>>, Hash),
   AuthMsg(<<UText, 1, X, 0>>, Hash)}

(* Anything at all: an unknown encoding, an unknown message, the first     *)
(* byte of a hello with something else behind it, invalid statements.      *)
AnyMsgs ==
  UsualMsgs \cup RefusedNames \cup
  {HelloMsg(0), HelloMsg(3), <<0>>, <<HelloHi, SqlMagic>>,
   SqlMsg(<<UText, 2, X, A, 0>>), SqlMsg(<<UText, 2, A, X, 0>>)}
=============================================================================
