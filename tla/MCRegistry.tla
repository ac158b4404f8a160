----------------------------- MODULE MCRegistry -----------------------------
(* PoolRegistry with a few pools and the strings that may name them. *)
EXTENDS PoolRegistry, TLC

Token(n, v) == [name |-> n, value |-> v]
Dsn(place, user, tokens) ==
  [form |-> "string", tokens |-> tokens, place |-> place, user |-> user]

\* One place named twice in other words.
Strings == {
  Dsn("a", "u", <<Token("dsn", "a"), Token("uid", "u")>>),
  Dsn("a", "u", <<Token("User", "u"), Token(" Dsn ", "a"), Token("pwd", "x")>>) }

\* URLs of two servers: the text up to a '=' is no name make_key() knows.
Urls == {
  Dsn("a", "u", <<Token("postgresql://u@a/db?connect_timeout", "2")>>),
  Dsn("b", "u", <<Token("postgresql://u@b/db?connect_timeout", "2")>>) }

\* The default heartbeat, a slower one and none.
Ticks == [p \in Pools |-> CASE p = "p1" -> 1 [] p = "p2" -> 2 [] OTHER -> 0]
=============================================================================
