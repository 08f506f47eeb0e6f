--------------------------- MODULE DbClientProps ---------------------------
(***************************************************************************)
(* What must hold between the client library and the server session, and   *)
(* what include/client/dbclient.h says of them that does not.              *)
(***************************************************************************)
EXTENDS DbClient, SessionProps

(* A client that believes its handshake done shares it with the server:    *)
(* the greeting came from this very connection's child, which knows the    *)
(* client's encoding, whatever an earlier connection left in the buffers   *)
(* (dbclient.c:288-341, session.c:61-93).                                  *)
HandshakeAgreed ==
  cs = "C" => Sent("HELLO") /\ clientEnc = 1

(* Credentials leave the client only for a server that asked for them on   *)
(* this connection (dbclient.c:357-362).                                   *)
CredentialsOnRequest ==
  [][call # "auth_responce" /\ call' = "auth_responce"
       => Sent("AUTH_REQUEST")]_allVars

(* dbclient_authenticate reports success only when the child of this       *)
(* connection did accept the credentials (dbclient.c:376-391,              *)
(* session.c:119-139).                                                     *)
SuccessIsGranted ==
  [][call = "auth_status" /\ cs' = "A" => userId # 0 /\ Sent("AUTH_OK")]_allVars

(* No call blocks for ever once the server child is gone, in whatever      *)
(* message the stream ends (dbclient.c:288-527, pproto_client.c:85-130).   *)
CallsEndWithServer ==
  call \in Waiting /\ pc \in Ended ~> call \notin Waiting

----------------------------------------------------------------------------
(* Statements of the documents that the code refutes.                      *)

(* dbclient.h:97-99, dbclient_authenticate: it returns success, an         *)
(* error, or DBCLIENT_RETURN_AUTH_FAILED; so it returns.                   *)
AuthenticateReturns ==
  call = "auth_request" ~> call # "auth_request"

(* dbclient.h:13: state A is `authenticated'.                              *)
AuthenticatedIsGranted ==
  cs = "A" => Sent("AUTH_OK")
=============================================================================
