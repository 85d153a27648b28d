---- MODULE MCSshService ----
(* Small instances of SshService for TLC. *)
EXTENDS SshService

Req(user, server, kind, children) ==
  [user |-> user, server |-> server, kind |-> kind, children |-> children]

MCRequests == {Req("u1", "s1", "single", 1), Req("u2", "s1", "composite", 2),
               Req("u1", "s2", "list", 0)}

Setting(all, user, server, contended, torn) ==
  [all |-> all, user |-> user, server |-> server, contended |-> contended, torn |-> torn]

(* Each limit in turn is the one that bites; and threads are switched in    *)
(* one place at a time: nothing reads the metrics, so they do not interact. *)
MCSettings == {Setting(1, 3, 3, FALSE, TRUE), Setting(3, 1, 3, FALSE, FALSE),
               Setting(3, 3, 1, FALSE, FALSE), Setting(2, 2, 1, TRUE, FALSE)}

MCContended == {Setting(2, 2, 2, TRUE, FALSE)}

MCSingle == {Req("u1", "s1", "single", 1)}
====
