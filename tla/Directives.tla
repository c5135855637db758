----------------------------- MODULE Directives -----------------------------
(***************************************************************************)
(* A message a user sends to a workspace: parsed line by line into         *)
(* directives (core/slash_parser.py), each routed to the harness, to       *)
(* learning or over a passage to an instance (core/directive_router.py,    *)
(* core/message_router.py, send_message of api/v1/messaging.py).           *)
(*                                                                         *)
(* A line is a sequence of words: <<"at", slug>> a mention, <<"ref", s>> a *)
(* scope such as @hub, <<"file", c>> one with a path such as @hub:a/b,     *)
(* <<"cmd", c>> a command, <<"path", c>> a word with what reads as the     *)
(* command c in it, such as and/or, <<"mail", w>> a word with a scope in   *)
(* it, such as me@hub, <<"word", w>> any other.  Parsing cuts words:       *)
(* <<"stem", c>> is what the command leaves of a path, <<"part", w>> what  *)
(* the scope leaves of a mail.  A message is routed in one transaction,    *)
(* one query after the other, while entities, instances and passages       *)
(* change under it.                                                        *)
(***************************************************************************)
EXTENDS Naturals, Sequences, FiniteSets, SequencesExt

CONSTANTS Texts,          \* bound: the messages that are sent, sequences of lines
          Agents,         \* entities
          SlugOf,         \* Agents -> slug: unique in a namespace only
          MaxShifts,      \* bound: changes of the workspace during a message
          NoTarget

ASSUME TextsAssumption == Texts \subseteq Seq(Seq({"at", "ref", "file", "cmd", "path", "mail", "word"} \X STRING))
ASSUME SlugsAssumption == \A a \in Agents : SlugOf[a] # NoTarget   \* a directive without a target names nobody
ASSUME ShiftsAssumption == MaxShifts \in Nat

VARIABLES agent,          \* entity -> [live, active, seated, linked]
          msg,            \* the message in hand
          pending,        \* what its transaction has written
          committed,      \* what was committed
          handed,         \* turns given to a host before the commit
          shifts

directiveVars == <<agent, msg, pending, committed, handed, shifts>>

-----------------------------------------------------------------------------
(* Parsing                                                                 *)

Slashed(t) == t[1] \in {"cmd", "path", "file"}
Positions(line, P(_)) ==
    LET S == {i \in DOMAIN line : P(line[i])}
    IN  [k \in 1 .. Cardinality(S) |-> CHOOSE i \in S : Cardinality({j \in S : j =< i}) = k]
Mention(t) == t[1] = "at"
Directive(target, cmd, args) == [target |-> target, cmd |-> cmd, args |-> args]

\* expand_inline_chat_mentions: a directive per mention, with the words up to the next
Expands(line) ==
    /\ ~\E i \in DOMAIN line : Slashed(line[i])
    /\ Len(Positions(line, Mention)) > 1
UpToNextButLast(line, at, k) == SubSeq(line, at[k] + 1, IF k < Len(at) THEN at[k + 1] - 1 ELSE Len(line) - 1)
UpToNext(line, at, k) == SubSeq(line, at[k] + 1, IF k < Len(at) THEN at[k + 1] - 1 ELSE Len(line))
ExpandInlineChatMentions(line) ==
    LET at == Positions(line, Mention)
    IN  [k \in DOMAIN at |-> Directive(line[at[k]][2], "", UpToNext(line, at, k))]

\* References are taken out of the arguments, also from inside a word.
WithoutRef(t) ==
    CASE t[1] \in {"ref", "file"} -> <<>>
      [] t[1] = "mail" -> <<<<"part", t[2]>>>>
      [] OTHER -> <<t>>
WithoutRefs(tokens) == FlattenSeq([i \in DOMAIN tokens |-> WithoutRef(tokens[i])])

\* What the command that is cut out of a word leaves of it; of a reference, its scope.
Cut(t) ==
    CASE t[1] = "path" -> <<<<"stem", t[2]>>>>
      [] t[1] = "file" -> <<<<"ref", t[2]>>>>
      [] OTHER -> <<>>

\* parse_directive: the first @token is the target, a scope too; the first slash
\* anywhere after it starts the command, inside a word too.  A line with neither is
\* general text: no directive.
ParseDirective(line) ==
    LET aimed == Len(line) > 0 /\ line[1][1] \in {"at", "ref"}
        target == IF aimed THEN line[1][2] ELSE NoTarget
        rest == IF aimed THEN Tail(line) ELSE line
        at == Positions(rest, Slashed)
        left == SubSeq(rest, 1, at[1] - 1) \o Cut(rest[at[1]]) \o SubSeq(rest, at[1] + 1, Len(rest))
    IN  IF at # <<>>
        THEN <<Directive(target, rest[at[1]][2], WithoutRefs(left))>>
        ELSE IF aimed THEN <<Directive(target, "", rest)>> ELSE <<>>

ParseLine(line) == IF Expands(line) THEN ExpandInlineChatMentions(line) ELSE ParseDirective(line)
ParseTurn(text) == FlattenSeq([k \in DOMAIN text |-> ParseLine(text[k])])

-----------------------------------------------------------------------------
(* Routing                                                                 *)

ControlCommands == {"/pause", "/status"}
LearningCommands == {"/distill"}

Named(slug) == {a \in Agents : agent[a].live /\ SlugOf[a] = slug}

NoMessage == [phase |-> "none", text |-> <<>>, dirs |-> <<>>, next |-> 1, found |-> NoTarget, moved |-> FALSE]

\* send_message and route_turn: a sender without a membership gets nothing routed.
SendMessage ==
    \E text \in Texts :
       /\ msg.phase = "none"
       /\ msg' = [NoMessage EXCEPT !.phase = "route", !.text = text, !.dirs = ParseTurn(text)]
       /\ UNCHANGED <<agent, pending, committed, handed, shifts>>

Current == msg.dirs[msg.next]
More == msg.phase = "route" /\ msg.next =< Len(msg.dirs)
Advance == [msg EXCEPT !.phase = "route", !.next = msg.next + 1, !.found = NoTarget]
Entry(kind, a) == [kind |-> kind, to |-> a, dir |-> msg.next]

\* _route_control_directive, _route_learning_directive: whichever entity of that slug
\* comes first; a missing target, entity or instance ends it silently.
RouteControl ==
    /\ More /\ Current.cmd \in ControlCommands
    /\ \/ \E a \in Named(Current.target) : agent[a].active /\ pending' = pending \cup {Entry("control", a)}
       \/ (Named(Current.target) = {} \/ \E a \in Named(Current.target) : ~agent[a].active) /\ UNCHANGED pending
    /\ msg' = Advance
    /\ UNCHANGED <<agent, committed, handed, shifts>>
RouteLearning ==
    /\ More /\ Current.cmd \in LearningCommands
    /\ IF Named(Current.target) = {} THEN UNCHANGED pending
       ELSE \E a \in Named(Current.target) : pending' = pending \cup {Entry("distilled", a)}
    /\ msg' = Advance
    /\ UNCHANGED <<agent, committed, handed, shifts>>

\* route_turn: the entity for the activation, and the guard on its instance.  When
\* there is none, the message is routed nevertheless, to whom route_message finds.
ResolveTarget ==
    /\ More /\ Current.cmd \notin ControlCommands \cup LearningCommands
    /\ IF Current.target = NoTarget THEN msg' = Advance
       ELSE \/ Named(Current.target) = {} /\ msg' = [msg EXCEPT !.phase = "deliver"]
            \/ \E a \in Named(Current.target) :
                  msg' = IF agent[a].active THEN [msg EXCEPT !.phase = "deliver", !.found = a] ELSE Advance
    /\ UNCHANGED <<agent, pending, committed, handed, shifts>>

Woken == IF msg.found = NoTarget THEN {} ELSE {Entry("mention", msg.found)}

\* As a mutant: an instance that no passage leads to gets the turn.
DeliverUnlinked(a) == [pend |-> {Entry("turn", a), Entry("inject", a)} \cup Woken, turn |-> {Entry("turn", a)}]

\* What route_message writes for the instance of a: over a passage an inject and a
\* turn, which the host has before the commit, and trigger_on_mention for the entity
\* route_turn found, if any; else the transcript and a notice for the cerebellum.
Delivery(a) ==
    IF agent[a].seated /\ agent[a].linked
    THEN [pend |-> {Entry("turn", a), Entry("inject", a)} \cup Woken, turn |-> {Entry("turn", a)}]
    ELSE [pend |-> {Entry("cerebellum", a)}, turn |-> {}]

RouteMessageToFirst ==
    /\ msg.phase = "deliver"
    /\ \E a \in Named(Current.target) :
          /\ agent[a].active
          /\ pending' = pending \cup Delivery(a).pend
          /\ handed' = handed \cup Delivery(a).turn
    /\ msg' = Advance
    /\ UNCHANGED <<agent, committed, shifts>>

\* route_message looks the slug up again.
RouteMessage ==
    /\ msg.phase = "deliver"
    /\ \/ /\ \A a \in Named(Current.target) : ~agent[a].active
          /\ UNCHANGED <<pending, handed>>
       \/ \E a \in Named(Current.target) :
             /\ agent[a].active
             /\ pending' = pending \cup Delivery(a).pend
             /\ handed' = handed \cup Delivery(a).turn
    /\ \A a, b \in Named(Current.target) : a = b
    /\ msg' = Advance
    /\ UNCHANGED <<agent, committed, shifts>>

\* scalar_one_or_none on two entities of that slug: the request fails.
AmbiguousSlug ==
    /\ msg.phase = "deliver"
    /\ \E a, b \in Named(Current.target) : a # b
    /\ msg' = [msg EXCEPT !.phase = "failed"]
    /\ pending' = {}
    /\ UNCHANGED <<agent, committed, handed, shifts>>

CommitMessage ==
    /\ msg.phase = "route" /\ msg.next > Len(msg.dirs)
    /\ msg' = [msg EXCEPT !.phase = "done"]
    /\ committed' = committed \cup pending /\ pending' = {}
    /\ UNCHANGED <<agent, handed, shifts>>

\* Other requests: entities come and go, instances start and stop, passages close.
Shift ==
    /\ shifts < MaxShifts /\ shifts' = shifts + 1
    /\ \E a \in Agents, f \in {"live", "active", "seated", "linked"} : agent' = [agent EXCEPT ![a][f] = ~@]
    /\ msg' = [msg EXCEPT !.moved = msg.phase # "none"]
    /\ UNCHANGED <<pending, committed, handed>>

DirectivesNext ==
    \/ SendMessage \/ RouteControl \/ RouteLearning \/ ResolveTarget \/ RouteMessage \/ AmbiguousSlug
    \/ CommitMessage \/ Shift

DirectivesTypeOK ==
    /\ DOMAIN agent = Agents
    /\ msg.phase \in {"none", "route", "deliver", "failed", "done"}
    /\ msg.next \in 1 .. Len(msg.dirs) + 1
    /\ \A x \in pending \cup committed \cup handed : x.to \in Agents /\ x.dir \in DOMAIN msg.dirs
    /\ shifts \in 0 .. MaxShifts

-----------------------------------------------------------------------------
(* Properties                                                              *)

Words(t) == IF t[1] \in {"word", "path", "mail", "stem", "part"} THEN <<t[2]>> ELSE <<>>
Said(tokens) == FlattenSeq([i \in DOMAIN tokens |-> Words(tokens[i])])

\* The words of a line all reach its directives, in order, or stay general text; only
\* what stands before the first of several mentions is dropped.  A line without a slash
\* keeps them whole, and a slash cuts a word only where it makes the command.
TextKept ==
    \A k \in DOMAIN msg.text :
       LET line == msg.text[k]
           dirs == ParseLine(line)
           first == IF Expands(line) THEN Positions(line, Mention)[1] ELSE 1
       IN  dirs # <<>> =>
              /\ FlattenSeq([j \in DOMAIN dirs |-> Said(dirs[j].args)]) = Said(SubSeq(line, first, Len(line)))
              /\ \A j \in DOMAIN dirs : \A i \in DOMAIN dirs[j].args :
                    LET t == dirs[j].args[i] IN
                    /\ t[1] \in {"stem", "part"} => \E x \in DOMAIN line : Slashed(line[x])
                    /\ t[1] = "stem" => t[2] = dirs[j].cmd

\* The entity that is told it was mentioned is the one that got the turn, if nothing
\* changed between the two look-ups of the slug.
MentionWakesReceiver ==
    \A x, y \in pending \cup committed :
       x.kind = "turn" /\ y.kind = "mention" /\ x.dir = y.dir /\ ~msg.moved => x.to = y.to

\* When a message is through and nothing changed under it, each directive to the one
\* entity of its slug that is active, seated and linked has its turn and its inject,
\* and nothing else has.
ReachableIsDelivered ==
    msg.phase = "done" /\ ~msg.moved =>
       \A k \in DOMAIN msg.dirs :
          LET d == msg.dirs[k]
              reached == {a \in Named(d.target) : agent[a].active /\ agent[a].seated /\ agent[a].linked}
              chat == d.cmd \notin ControlCommands \cup LearningCommands
          IN  /\ (chat /\ \A a, b \in Named(d.target) : a = b) =>
                    {x.to : x \in {y \in committed : y.dir = k /\ y.kind = "turn"}} = reached
              /\ \A a \in Agents : [kind |-> "turn", to |-> a, dir |-> k] \in committed
                                   <=> [kind |-> "inject", to |-> a, dir |-> k] \in committed
=============================================================================
