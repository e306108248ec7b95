------------------------------- MODULE Access ---------------------------------
(***************************************************************************)
(* The modules whose failure could lock the operator out of the host they  *)
(* work on: sshd.port, ufw, the trusted CA and authorized principals, and  *)
(* authorized_keys.  Each is a unit with the part of the host it touches;  *)
(* a behaviour is one unit's.                                              *)
(***************************************************************************)
EXTENDS Remote

VARIABLE unit  \* the module whose behaviour this is

Port      == INSTANCE SshdPort
Firewall  == INSTANCE Ufw
CertFiles == INSTANCE CertificateFiles
AuthKeys  == INSTANCE AuthorizedKeys

AccessInit ==
    \/ unit = "port" /\ Port!Init
    \/ unit = "ufw" /\ Firewall!Init
    \/ unit = "certs" /\ CertFiles!Init
    \/ unit = "authorized keys" /\ AuthKeys!Init

AccessNext ==
    \/ unit = "port" /\ Port!Next /\ UNCHANGED unit
    \/ unit = "ufw" /\ Firewall!Next /\ UNCHANGED unit
    \/ unit = "certs" /\ CertFiles!Next /\ UNCHANGED unit
    \/ unit = "authorized keys" /\ AuthKeys!Next /\ UNCHANGED unit

AccessSpec == AccessInit /\ [][AccessNext]_<<vars, unit>>

-----------------------------------------------------------------------------

\* What the units let happen to the way into the host: a port that answers
\* is not given up, up to two faults (sshd.ts); ufw closes the session's port
\* only if somebody undoes its allow rule unseen (ufw.ts); a CA that sshd
\* trusts is not taken away, up to one fault (sshCertificateModules.ts); and
\* another key is lost only between the copy and the rename, or where the
\* last line has no newline (sshAuthorizedKeysHelpers.ts).
AccessIsKept ==
    /\ unit = "port" => Port!AccessIsKept
    /\ unit = "ufw" => Firewall!AccessIsKept
    /\ unit = "certs" => CertFiles!AccessIsKept
    /\ unit = "authorized keys" => AuthKeys!AccessIsKept
=============================================================================
