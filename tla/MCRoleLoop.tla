------------------------------ MODULE MCRoleLoop ------------------------------
(***************************************************************************)
(* RoleLoop for TLC: a call of every kind the gates and the parsing of     *)
(* arguments tell apart.                                                   *)
(***************************************************************************)
EXTENDS RoleLoop

MCCallKinds == {<<"read", "cut">>, <<"write", "concat">>, <<"write", "cut">>,
                <<"handoff", "json">>, <<"foreign", "json">>}
=============================================================================
