------------------------------ MODULE Processes ------------------------------
(***************************************************************************)
(* The processes of one host that run queueman with one configuration: the *)
(* service systemd keeps alive and what users start beside it, from the    *)
(* command line to the first deliveries; the pid file and the port that    *)
(* should keep them apart; other programs, which use pids too; and, inside *)
(* each process, the cache of RabbitMQ connections its queues share.       *)
(* Source: src/main.go, src/libs/command/command.go, src/libs/pidfile/,    *)
(* src/libs/queue/rabbitmq/connection.go, src/libs/aliyun/aliyun.go,       *)
(* src/queueman.service.                                                   *)
(*                                                                         *)
(* What a dispatching process does with messages is RedisQueue's and       *)
(* RabbitQueue's business: here it only matters which processes dispatch.  *)
(***************************************************************************)
EXTENDS Integers, Sequences, FiniteSets

CONSTANTS
  Pids,        \* process ids the kernel hands out, all equally long
  Sources,     \* the RabbitMQ sources in the order of the file
  HTTPPort,    \* 0: no statistics page
  Commands,    \* what users run, a subset of CommandKinds
  MaxUsers,    \* bound: how often users start queueman
  MaxKills     \* bound: how often a process is killed, or fails

(* "serve": neither -s nor -t; "once": -s or -t.                           *)
CommandKinds == {"serve", "once"}

(* What Config holds: host stands for scheme, host and port, user for user *)
(* and password.  Aliyun's Type leaves user empty: URL() computes it, and  *)
(* the password, from account, the AliyunParams.                           *)
SourceFields == {"host", "vhost", "user", "account"}

ASSUME ProcessAssumption ==
  /\ IsFiniteSet(Pids)
  /\ Sources \in Seq({Sources[i] : i \in DOMAIN Sources})
  /\ \A i \in DOMAIN Sources : DOMAIN Sources[i] = SourceFields
  /\ HTTPPort \in Nat
  /\ Commands \subseteq CommandKinds
  /\ MaxUsers \in Nat
  /\ MaxKills \in Nat

None == "none"       \* a unit that is to be started, a port nobody has
Ended == "ended"     \* a unit whose process has gone
Absent == "absent"   \* there is no pid file
Empty == "empty"     \* it was truncated and not yet written

VARIABLES
  stage,     \* per pid: how far the process with this pid is
  command,   \* per pid: its command line
  unit,      \* the process of queueman.service, None or Ended
  same,      \* the unit's PIDFile= is the configuration's PIDFile
  file,      \* the pid file: a pid, Absent or Empty
  found,     \* per pid: what ReadFile returned to a process that checks it
  port,      \* the process that listens on HTTPPort, or None
  reachable, \* the brokers and Redis accept connections
  cache,     \* per pid: packageInstance, the connections in dialling order
  conns,     \* per pid and source: who dialled the connection its queues use
  users, kills,
  raced      \* history: a process passed the check while another was between
             \* check and file, or after the file it had read was changed, or
             \* systemd removed the file of a live process

vars == <<stage, command, unit, same, file, found, port, reachable, cache,
          conns, users, kills, raced>>
-----------------------------------------------------------------------------
(* Helpers *)

(* "free": no process has this pid; "other": another program has it.       *)
(* "args" is GetArgs with printTest; "check", "stat", "create" and "write" *)
(* the steps of pidfile.New ("blind": the file it has open was removed);   *)
(* "run" is main from there on, "serve" once it listens or sleeps.         *)
Stages == {"free", "other", "args", "check", "stat", "create", "write",
           "blind", "run", "serve"}

(* Past the check, and its pid not yet in the file.                        *)
InWindow(p) == stage[p] \in {"create", "write", "blind"}

(* Its goroutines fetch and post messages.                                 *)
Dispatches(p) == stage[p] \in {"run", "serve"}

Active(p) == InWindow(p) \/ Dispatches(p)

(* Mutant: a check that looks for the pid in the wrong place.              *)
ExistsNever(p) == p \in Pids /\ FALSE

(* Mutant: a file that holds no number counts as taken.                    *)
ExistsUnreadable(p) == p = Empty \/ (p \in Pids /\ stage[p] # "free")

(* processExists: /proc/<pid> can be stated, whoever's it is.              *)
Exists(p) == p \in Pids /\ stage[p] # "free"

(* What the md5 is taken of: the fields one after the other, nothing       *)
(* between them, before URL() is called.  Neither Type nor AliyunParams.   *)
Key(s) == s.host \o s.user \o s.vhost

(* Whose connection GetConnection returns for source i, given the cache:   *)
(* the one under its key, or else one dialled now.                         *)
Hits(i, dialled) == {j \in DOMAIN dialled : Key(Sources[dialled[j]]) = Key(Sources[i])}

(* Mutant: dials without looking into the cache.                           *)
DialledAgain(i, dialled) == Append(dialled, i)

(* The cache after GetConnection.                                          *)
Dialled(i, dialled) == IF Hits(i, dialled) = {} THEN Append(dialled, i) ELSE dialled

Owner(i, dialled) == dialled[CHOOSE j \in Hits(i, dialled) : TRUE]

(* printTest asks for the connection of every source in turn.              *)
Primed == LET after[i \in 0..Len(Sources)] ==
                IF i = 0 THEN <<>> ELSE Dialled(i, after[i - 1])
          IN  after[Len(Sources)]

Unused == [i \in DOMAIN Sources |-> 0]

At(p, where) == stage' = [stage EXCEPT ![p] = where]

(* The end of a process, whatever the reason: the kernel frees its pid,    *)
(* memory and port; the pid file stays.                                    *)
Ends(p) ==
  /\ At(p, "free")
  /\ unit' = IF unit = p THEN Ended ELSE unit
  /\ port' = IF port = p THEN None ELSE port
  /\ found' = [found EXCEPT ![p] = Absent]
  /\ cache' = [cache EXCEPT ![p] = <<>>]
  /\ conns' = [conns EXCEPT ![p] = Unused]
-----------------------------------------------------------------------------
Init ==
  /\ stage = [p \in Pids |-> "free"]
  /\ command = [p \in Pids |-> "serve"]
  /\ unit = None
  /\ same \in BOOLEAN
  /\ file \in Pids \cup {Absent}   \* the last boot may have left one
  /\ found = [p \in Pids |-> Absent]
  /\ port = None
  /\ reachable = TRUE
  /\ cache = [p \in Pids |-> <<>>]
  /\ conns = [p \in Pids |-> Unused]
  /\ users = 0
  /\ kills = 0
  /\ raced = FALSE
-----------------------------------------------------------------------------
(* The environment *)

(* systemd starts the unit, and starts it again a second after it ended.   *)
UnitStarts(p) ==
  /\ unit = None
  /\ stage[p] = "free"
  /\ At(p, "args")
  /\ command' = [command EXCEPT ![p] = "serve"]
  /\ unit' = p
  /\ UNCHANGED <<same, file, found, port, reachable, cache, conns, users, kills,
                 raced>>

(* Once the unit's process is gone systemd removes the unit's PIDFile, a   *)
(* process that is about to write into the file writes into nothing.       *)
UnitEnds ==
  /\ unit = Ended
  /\ unit' = None
  /\ \/ /\ same
        /\ file' = Absent
        /\ stage' = [p \in Pids |-> IF stage[p] = "write" THEN "blind" ELSE stage[p]]
        /\ raced' = (raced \/ \E p \in Pids : Active(p))
     \/ /\ ~same
        /\ UNCHANGED <<stage, file, raced>>
  /\ UNCHANGED <<command, same, found, port, reachable, cache, conns, users, kills>>

(* A user runs queueman beside the service.                                *)
UserStarts(p, c) ==
  /\ users < MaxUsers
  /\ stage[p] = "free"
  /\ users' = users + 1
  /\ At(p, "args")
  /\ command' = [command EXCEPT ![p] = c]
  /\ UNCHANGED <<unit, same, file, found, port, reachable, cache, conns, kills,
                 raced>>

(* Another program takes a pid, as long as it is not the last, or ends.    *)
Other(p) ==
  /\ \/ stage[p] = "free" /\ (\E q \in Pids \ {p} : stage[q] = "free") /\ At(p, "other")
     \/ stage[p] = "other" /\ At(p, "free")
  /\ UNCHANGED <<command, unit, same, file, found, port, reachable, cache, conns,
                 users, kills, raced>>

(* The brokers go away or come back: a process that consumes waits for     *)
(* them (the library dials again), one that starts does not.               *)
Outage ==
  /\ reachable' = ~reachable
  /\ UNCHANGED <<stage, command, unit, same, file, found, port, cache, conns,
                 users, kills, raced>>

(* A signal (none is handled), a panic in a goroutine (none is recovered), *)
(* the log file that cannot be opened again at the end of a minute.        *)
Dies(p) ==
  /\ stage[p] \notin {"free", "other"}
  /\ kills < MaxKills
  /\ kills' = kills + 1
  /\ Ends(p)
  /\ UNCHANGED <<command, same, file, reachable, users, raced>>
-----------------------------------------------------------------------------
(* GetArgs *)

(* Every source answers printTest: -t and -s are done, and never look at   *)
(* the pid file; otherwise main goes on.                                   *)
Tested(p) ==
  /\ stage[p] = "args"
  /\ reachable
  /\ \/ /\ command[p] = "serve"
        /\ At(p, "check")
        /\ cache' = [cache EXCEPT ![p] = Primed]
        /\ UNCHANGED <<unit, found, port, conns>>
     \/ /\ command[p] = "once"
        /\ Ends(p)
  /\ UNCHANGED <<command, same, file, reachable, users, kills, raced>>

(* One does not: the panic is recovered and the process exits with 0.      *)
TestFails(p) ==
  /\ stage[p] = "args"
  /\ ~reachable
  /\ Ends(p)
  /\ UNCHANGED <<command, same, file, reachable, users, kills, raced>>
-----------------------------------------------------------------------------
(* pidfile.New *)

(* ioutil.ReadFile.                                                        *)
ReadFile(p) ==
  /\ stage[p] = "check"
  /\ At(p, "stat")
  /\ found' = [found EXCEPT ![p] = file]
  /\ UNCHANGED <<command, unit, same, file, port, reachable, cache, conns,
                 users, kills, raced>>

(* What was read names a process there is now, be it this one: main exits. *)
Refused(p) ==
  /\ stage[p] = "stat"
  /\ Exists(found[p])
  /\ Ends(p)
  /\ UNCHANGED <<command, same, file, reachable, users, kills, raced>>

(* No file, no number in it, or no such process.                           *)
Passed(p) ==
  /\ stage[p] = "stat"
  /\ ~Exists(found[p])
  /\ At(p, "create")
  /\ found' = [found EXCEPT ![p] = Absent]
  /\ raced' = (raced \/ file # found[p] \/ \E q \in Pids \ {p} : InWindow(q))
  /\ UNCHANGED <<command, unit, same, file, port, reachable, cache, conns,
                 users, kills>>

(* ioutil.WriteFile: open with O_CREATE and O_TRUNC, then write.           *)
Create(p) ==
  /\ stage[p] = "create"
  /\ At(p, "write")
  /\ file' = Empty
  /\ UNCHANGED <<command, unit, same, found, port, reachable, cache, conns, users,
                 kills, raced>>

(* Mutant: not its own pid but that of the process systemd started.        *)
WriteUnit(p) ==
  /\ stage[p] \in {"write", "blind"}
  /\ At(p, "run")
  /\ file' = IF stage[p] = "write" THEN unit ELSE file
  /\ UNCHANGED <<command, unit, same, found, port, reachable, cache, conns, users,
                 kills, raced>>

(* The process then starts the dispatchers, each in its own goroutine.     *)
Write(p) ==
  /\ stage[p] \in {"write", "blind"}
  /\ At(p, "run")
  /\ file' = IF stage[p] = "write" THEN p ELSE file
  /\ UNCHANGED <<command, unit, same, found, port, reachable, cache, conns, users,
                 kills, raced>>
-----------------------------------------------------------------------------
(* main, and the goroutines it started *)

(* The queues of source i get their connection, which printTest has put    *)
(* into the cache, and open a channel.  GetConnection holds packageMutex   *)
(* from its first line to its last.                                        *)
QueueStarts(p, i) ==
  /\ Dispatches(p)
  /\ conns[p][i] = 0
  /\ reachable
  /\ cache' = [cache EXCEPT ![p] = Dialled(i, @)]
  /\ conns' = [conns EXCEPT ![p][i] = Owner(i, cache'[p])]
  /\ UNCHANGED <<stage, command, unit, same, file, found, port, reachable,
                 users, kills, raced>>

(* Without a channel, failOnError ends the process, and with it all other  *)
(* queues.                                                                 *)
QueueFails(p, i) ==
  /\ Dispatches(p)
  /\ conns[p][i] = 0
  /\ ~reachable
  /\ Ends(p)
  /\ UNCHANGED <<command, same, file, reachable, users, kills, raced>>

(* Mutant: a port that is taken is only logged.                            *)
ListenAnyway(p) ==
  /\ stage[p] = "run"
  /\ At(p, "serve")
  /\ port' = IF port = None /\ HTTPPort > 0 THEN p ELSE port
  /\ UNCHANGED <<command, unit, same, file, found, reachable, cache, conns,
                 users, kills, raced>>

(* ListenAndServe, or without a port the endless sleep.  A port that is    *)
(* taken ends the process, whose dispatchers have been running by then.    *)
Listen(p) ==
  /\ stage[p] = "run"
  /\ \/ /\ HTTPPort > 0 => port = None
        /\ At(p, "serve")
        /\ port' = IF HTTPPort > 0 THEN p ELSE port
        /\ UNCHANGED <<unit, found, cache, conns>>
     \/ /\ HTTPPort > 0 /\ port # None
        /\ Ends(p)
  /\ UNCHANGED <<command, same, file, reachable, users, kills, raced>>
-----------------------------------------------------------------------------
Starting(p) ==
  \/ Tested(p) \/ TestFails(p)
  \/ ReadFile(p) \/ Refused(p) \/ Passed(p) \/ Create(p) \/ Write(p)

Next ==
  \/ UnitEnds
  \/ Outage
  \/ \E p \in Pids :
       \/ UnitStarts(p)
       \/ \E c \in Commands : UserStarts(p, c)
       \/ Other(p)
       \/ Dies(p)
       \/ Starting(p)
       \/ \E i \in DOMAIN Sources : QueueStarts(p, i) \/ QueueFails(p, i)
       \/ Listen(p)

Spec == Init /\ [][Next]_vars

(* systemd restarts the unit without a limit (StartLimitInterval=0), and a *)
(* process that can go on does.  Nothing is assumed of users, of the other *)
(* programs or of the brokers.                                             *)
Fairness ==
  /\ WF_vars(UnitEnds)
  /\ WF_vars(\E p \in Pids : UnitStarts(p))
  /\ \A p \in Pids :
       /\ WF_vars(Starting(p))
       /\ WF_vars(Listen(p))
       /\ \A i \in DOMAIN Sources : WF_vars(QueueStarts(p, i) \/ QueueFails(p, i))

FairSpec == Spec /\ Fairness
-----------------------------------------------------------------------------
(* Properties *)

(* Every variable keeps its type.                                          *)
TypeOK ==
  /\ stage \in [Pids -> Stages]
  /\ command \in [Pids -> CommandKinds]
  /\ unit \in Pids \cup {None, Ended}
  /\ same \in BOOLEAN
  /\ file \in Pids \cup {Absent, Empty}
  /\ found \in [Pids -> Pids \cup {Absent, Empty}]
  /\ port \in Pids \cup {None}
  /\ reachable \in BOOLEAN
  /\ cache \in [Pids -> Seq(DOMAIN Sources)]
  /\ conns \in [Pids -> [DOMAIN Sources -> {0} \cup DOMAIN Sources]]
  /\ users \in Nat
  /\ kills \in Nat
  /\ raced \in BOOLEAN

(* The pid file keeps processes apart, across crashes, pids that are used  *)
(* again and files that were left behind: two of them dispatch only if one *)
(* passed the check while the other was between check and file, or on what *)
(* it had read before the other changed the file, or if systemd removed    *)
(* the file of a process that was alive.                                   *)
Exclusive ==
  \A p, q \in Pids : Dispatches(p) /\ Dispatches(q) /\ p # q => raced

(* Where both did start, the port decides in the end: with a statistics    *)
(* page, no two processes stay side by side.                               *)
PortDecides ==
  \A p, q \in Pids :
    HTTPPort > 0 /\ p # q => []<>~(Dispatches(p) /\ Dispatches(q))

(* The pid in the file is that of another program, or by chance that of    *)
(* the process that checks, and nobody removes the file.                   *)
Stale == ~same /\ file \in Pids /\ Exists(file) /\ ~Active(file)

(* The service comes back from every crash, refusal and outage: when the   *)
(* sources are reachable at last, and no stale file names a pid that is in *)
(* use, a process dispatches from some moment on.                          *)
Recovers ==
  <>[]reachable /\ <>[]~Stale => <>[](\E p \in Pids : Dispatches(p))

(* One connection per key, and always the same one: the queues of a source *)
(* use the connection printTest dialled for the first source of the file   *)
(* with that key, in whatever order and however often their goroutines     *)
(* ask, and a process never dials for one key a second time.  Whether that *)
(* is a connection the source may use is another matter: OwnConnection.    *)
OnePerKey ==
  \A p \in Pids :
    /\ \A j, k \in DOMAIN cache[p] :
         Key(Sources[cache[p][j]]) = Key(Sources[cache[p][k]]) => j = k
    /\ \A i \in DOMAIN Sources : conns[p][i] # 0 =>
         /\ Key(Sources[conns[p][i]]) = Key(Sources[i])
         /\ \A j \in DOMAIN Sources : Key(Sources[j]) = Key(Sources[i]) => conns[p][i] <= j

(* README 402: a Config serves the queues of its own node.  So a queue     *)
(* uses a connection to its own host and virtual host, logged in as its    *)
(* own user, or with its own AliyunParams where URL() makes the user of    *)
(* them.  The code does not keep this for sources with one key.            *)
OwnConnection ==
  \A p \in Pids : \A i \in DOMAIN Sources :
    conns[p][i] # 0 => Sources[conns[p][i]] = Sources[i]
=============================================================================
