----------------------------- MODULE MCDbClient -----------------------------
(***************************************************************************)
(* One application, two connections one after the other.                   *)
(***************************************************************************)
EXTENDS DbClientProps

NoMsgs == {}
User == <<65>>
Hash == <<GoodbyeMagic, AuthMagic>>
=============================================================================
