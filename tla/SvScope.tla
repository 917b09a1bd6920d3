-------------------------------- MODULE SvScope --------------------------------
(***************************************************************************)
(* SVScoped: how a call over DPI names the instance it is meant for.       *)
(* A scope is its path from the top; a name is a number of leading dots    *)
(* and a path: "TOP.foo" has none, ".foo" one, "..foo" two.  The guard     *)
(* sets the scope for one call: the constructor leaves it alone when it    *)
(* throws, and the destructor puts the old one back on every way out.      *)
(***************************************************************************)
EXTENDS Naturals, Sequences

ScopeName(dots, path) == [dots |-> dots, path |-> path]

\* join_sv_scopes: b below a.
JoinScopes(a, b) == ScopeName(a.dots, a.path \o b)

\* The scope `up` levels higher, but not above the leftmost component.
ScopeAbove(scope, up) ==
  SubSeq(scope, 1, IF up < Len(scope) THEN Len(scope) - up
                   ELSE IF scope = <<>> THEN 0 ELSE 1)

\* SetRelScope: what a name stands for while `current` is set.
Resolved(current, name) ==
  IF name.dots = 0 THEN name.path ELSE ScopeAbove(current, name.dots - 1) \o name.path
=============================================================================
