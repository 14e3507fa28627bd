----------------------------- MODULE MCPostman -----------------------------
(***************************************************************************)
(* Small instances of Postman for TLC.                                     *)
(***************************************************************************)
EXTENDS Postman

CONSTANTS s1, s2

Req(api, set, act, save, svc, v) ==
    [api |-> api, setcfg |-> set, activate |-> act, save |-> save,
     service |-> svc, value |-> v]

\* A call that stores a value and restarts, one whose value is rejected, and
\* postman for a restart only.
MCRequest == {Req("GetCfg", "set", TRUE, FALSE, s1, "good"),
              Req("GetCfg", "set", FALSE, TRUE, s2, "bad"),
              Req("postman", "no", TRUE, TRUE, s2, "good")}

=============================================================================
