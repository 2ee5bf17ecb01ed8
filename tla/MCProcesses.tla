----------------------------- MODULE MCProcesses -----------------------------
(***************************************************************************)
(* Sources for Processes: two Aliyun accounts on one instance, which       *)
(* differ in nothing the key is made of, a second virtual host, and a      *)
(* source of another type whose fields, run together, give the same key.   *)
(***************************************************************************)
EXTENDS Processes

Aliyun(vhost, account) ==
  [host |-> <<"h">>, vhost |-> <<vhost>>, user |-> <<>>, account |-> account]

Standard(user) ==
  [host |-> <<"h">>, vhost |-> <<>>, user |-> <<user>>, account |-> 0]

TwoAccounts == <<Aliyun("v", 1), Aliyun("v", 2)>>
AllKinds == <<Aliyun("v", 1), Aliyun("w", 1), Standard("v")>>
=============================================================================
