---------------------------- MODULE MCLoadFetch ----------------------------
(* A small instance of LoadFetch: which prefixes an operator may list. *)
EXTENDS LoadFetch

At(origin, path) == [origin |-> origin, path |-> path]

\* None; a whole origin, with no path and with "/"; a document or directory; a
\* directory on the other origin; two on one origin; two origins.
MCAllowlists ==
  { {},
    {At("a", <<>>)},
    {At("a", <<"">>)},
    {At("a", <<"data">>)},
    {At("b", <<"data", "">>)},
    {At("a", <<"database", "data">>), At("a", <<"data", "data">>)},
    {At("a", <<"data">>), At("b", <<"">>)} }
=============================================================================
