--------------------------- MODULE MCFileSelection ---------------------------
EXTENDS FileSelection

MCBase == <<"src">>

Node(depends, subdir, fs, comp) ==
  [depends |-> depends, subdir |-> subdir, files |-> fs, comp |-> comp, array |-> TRUE]

\* The shapes of ipstack.json: nodes without a subdir or dependencies, chains
\* of "and" and of "or", "not" in front, and "../api" as the last node.
Family == [
  root   |-> Node(<<"ip">>, <<>>, <<>>, <<"base", "tcp", "icmp", "api">>),
  base   |-> Node(<<>>, <<"router">>, <<"Router.h", "Router.cpp">>, <<>>),
  tcp    |-> Node(<<"tcp", "and", "v4">>, <<"tcp">>, <<"TCP.h">>, <<"listen", "client">>),
  listen |-> Node(<<"tcp", "and", "not", "listen">>, <<"statemachine">>, <<"closed.ah">>, <<>>),
  client |-> Node(<<"not", "v4">>, <<>>, <<"client.ah">>, <<>>),
  icmp   |-> Node(<<"v4", "or", "not", "tcp", "or", "listen">>, <<"icmp">>, <<"ICMP.h">>, <<>>),
  api    |-> Node(<<>>, <<"..", "api">>, <<>>, <<"tcpapi", "setup">>),
  tcpapi |-> Node(<<"tcp">>, <<>>, <<"TCP_Socket.h">>, <<>>),
  setup  |-> Node(<<>>, <<>>, <<"Setup.h">>, <<>>)]

\* Malformed ones: an entry that is no object, a comp that is no array, a
\* depends string that is not understood.
MCTrees ==
  {Family,
   [Family EXCEPT !.tcp.comp = <<"listen", "text", "client">>],
   [Family EXCEPT !.listen.array = FALSE],
   [Family EXCEPT !.icmp.depends = <<"v4", "and", "?">>]}

KconfigFeatures == {"ip", "tcp", "v4", "listen"}

KconfigLines(on) ==
  SetToSeq({[kind |-> IF f \in on THEN "yes" ELSE "comment", key |-> f, value |-> ""] : f \in KconfigFeatures})
    \o <<[kind |-> "value", key |-> "mtu", value |-> "1500"],
         [kind |-> "value", key |-> "mtu", value |-> "576"]>>

MCConfigs == {KconfigLines(on) : on \in SUBSET KconfigFeatures}

\* Every combination of options, and the faults one at a time.
Plain(o, d, k, f, a) ==
  [o |-> o, d |-> d, k |-> k, f |-> f, a |-> a,
   unknown |-> FALSE, writable |-> TRUE, kreadable |-> TRUE, freadable |-> TRUE]
Usual == Plain("file", "file", TRUE, TRUE, FALSE)

MCCommands ==
  {Plain(o, d, k, f, a) : o \in {"none", "stdout", "file"}, d \in {"none", "stdout", "file"},
                          k \in BOOLEAN, f \in BOOLEAN, a \in BOOLEAN}
    \cup {[Usual EXCEPT !.unknown = TRUE], [Usual EXCEPT !.writable = FALSE],
          [Usual EXCEPT !.kreadable = FALSE], [Usual EXCEPT !.freadable = FALSE]}
=============================================================================
