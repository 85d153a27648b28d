---- MODULE MCAgentLoop ----
(* A small instance of AgentLoop for TLC. *)
EXTENDS AgentLoop

Plain == [active |-> TRUE, owner |-> TRUE, explain |-> FALSE, technical |-> FALSE,
          write |-> FALSE, unclear |-> FALSE, current |-> FALSE,
          nolocation |-> FALSE, secret |-> FALSE, private |-> FALSE,
          caps |-> {"general_llm"}]

News == [Plain EXCEPT !.caps = {"web_search"}, !.current = TRUE]

(* What the answers need: nothing, the web, one tool, two, a tool and the    *)
(* web, a document; and for each gate a request that it stops.               *)
MCRequests ==
  { Plain,
    News,
    [Plain EXCEPT !.caps = {"web_search"}],
    [Plain EXCEPT !.caps = {"ssh"}],
    [Plain EXCEPT !.caps = {"ssh", "reminders"}],
    [Plain EXCEPT !.caps = {"reminders", "web_search"}, !.owner = FALSE],
    [Plain EXCEPT !.caps = {"documents"}, !.private = TRUE],
    [Plain EXCEPT !.active = FALSE],
    [Plain EXCEPT !.explain = TRUE],
    [Plain EXCEPT !.owner = FALSE, !.technical = TRUE],
    [Plain EXCEPT !.write = TRUE, !.caps = {}],
    [Plain EXCEPT !.unclear = TRUE],
    [Plain EXCEPT !.caps = {"location"}, !.current = TRUE],
    [News EXCEPT !.secret = TRUE],
    [Plain EXCEPT !.caps = {"location"}, !.nolocation = TRUE],
    [News EXCEPT !.caps = {"crypto_control", "web_search"}] }

Call(tool) == [tool |-> tool, args |-> "valid"]

MCCalls == { Call("get_server_summary"), Call("create_reminder"),
             Call("recall_memory"),
             [Call("create_reminder") EXCEPT !.args = "invalid"] }

(* No call, one call, two calls, the same one twice. *)
MCCallLists == {<<>>} \cup {<<c>> : c \in Calls}
               \cup {<<Call("get_server_summary"), d>> : d \in Calls}
====
