--------------------------- MODULE MCCommandLine ---------------------------
EXTENDS CommandLine

Nothing == [updateToken |-> <<>>, updateTokenFile |-> <<>>, queryToken |-> <<>>,
            anonymous |-> <<>>, maxBytes |-> <<>>]

Call == [cmd |-> "serve", flag |-> Nothing, env |-> Nothing, store |-> "absent", rest |-> "valid"]

MCSizes == [n : {0, 1, 6, 7, 16, 17, 32, 63, 64, 65, 127}, unit : {1, 4, 10}]

\* Every command; every combination of flags and variables about tokens; sizes.
MCCases ==
  {[Call EXCEPT !.cmd = c, !.store = s, !.rest = r] :
     c \in {"serve", "load", "query", "version", "help", "unknown"},
     s \in Stores, r \in {"valid", "invalid", "help"}}
  \cup
  {[Call EXCEPT !.flag = [Nothing EXCEPT !.updateToken = t, !.updateTokenFile = f,
                                         !.queryToken = q, !.anonymous = a],
                !.env = [Nothing EXCEPT !.updateToken = et, !.updateTokenFile = ef,
                                        !.anonymous = ea]] :
     t \in Optional({"", "A", "short", "spaced"}), et \in Optional({"", "B"}),
     f \in Optional({"", "A", "short", "emptyFile", "unreadable", "spaced"}),
     ef \in Optional({"B", "emptyFile"}),
     q \in Optional({"A", "short"}),
     a \in Optional({"true", "false", ""}), ea \in Optional({"true", "false", ""})}
  \cup
  {[Call EXCEPT !.flag.maxBytes = f, !.env.maxBytes = e] :
     f \in Optional(MCSizes), e \in Optional({[n |-> 64, unit |-> 4], [n |-> 6, unit |-> 10]})}
=============================================================================
