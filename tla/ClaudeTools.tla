----------------------------- MODULE ClaudeTools ----------------------------
(***************************************************************************)
(* Tool names of a cloaked Claude request (claude-protocol.js              *)
(* aliasClaudeOAuthTools, rewriteClaudeToolReferences and                  *)
(* restoreClaudeToolAliases): every tool of the caller's that is neither   *)
(* a server tool nor an MCP tool gets an alias, one tool after the other;  *)
(* references in the history follow; the answer is restored.               *)
(*                                                                         *)
(* An alias is a word of the list and the sanitised name.  The hash of a   *)
(* name and what sanitising leaves of it are constants: names may collide  *)
(* in both.  The server part is the same for all.                          *)
(***************************************************************************)
EXTENDS Naturals, Sequences, SequencesExt

CONSTANTS
    ToolNames,      \* names that callers give, some of them look like aliases
    Exempt,         \* the names of server tools and MCP tools
    Words,          \* how many words the list has
    BaseIndex,      \* the hash of a name
    Sanitized,      \* what sanitizeToolName leaves of it
    AliasName,      \* the name that a word and a sanitised name make
    MaxTools,       \* bound
    None

VARIABLES
    tools,      \* the caller's tools, in order
    next,       \* the tool that is looked at
    forward,    \* name -> alias, None where there is none
    sent,       \* the names the provider sees
    answer      \* the name the provider calls, and what the client gets

vars == <<tools, next, forward, sent, answer>>

AllNames == ToolNames \cup {AliasName[<<w, Sanitized[n]>>] : w \in 0..(Words - 1), n \in ToolNames}

\* The list has words, hashes are numbers and no name is the absent one.
NamesAssumption ==
    /\ Words \in Nat \ {0} /\ MaxTools \in Nat
    /\ BaseIndex \in [ToolNames -> Nat] /\ None \notin AllNames

TypeOK ==
    /\ tools \in BoundedSeq(ToolNames, MaxTools) /\ next \in 1..(MaxTools + 1)
    /\ \A n \in ToolNames : forward[n] \in AllNames \cup {None}
    /\ ToSet(sent) \subseteq AllNames
    /\ answer \in [called : AllNames \cup {None}, given : AllNames \cup {None}]

Init ==
    /\ tools \in BoundedSeq(ToolNames, MaxTools)
    /\ next = 1
    /\ forward = [n \in ToolNames |-> None]
    /\ sent = tools
    /\ answer = [called |-> None, given |-> None]

Aliases == {forward[n] : n \in {m \in ToolNames : forward[m] # None}}

\* Mutant: only other aliases are in the way.
ReservedAliases == Aliases

\* Names no alias may take: every name of the caller's, and the aliases given.
Reserved == ToSet(tools) \cup Aliases

\* Words are tried from the hash on, around the list.
Candidate(name, attempt) == AliasName[<<(BaseIndex[name] + attempt) % Words, Sanitized[name]>>]

\* One turn of the loop.  A second tool of the same name is left alone, and
\* so is one for which every word is taken.
AliasTool ==
    /\ next <= Len(tools)
    /\ next' = next + 1
    /\ LET name == tools[next]
           free == {a \in 0..(Words - 1) : Candidate(name, a) \notin Reserved}
       IN IF name \in Exempt \/ forward[name] # None \/ free = {}
          THEN UNCHANGED <<forward, sent>>
          ELSE LET first == CHOOSE a \in free : \A b \in free : a <= b
               IN /\ forward' = [forward EXCEPT ![name] = Candidate(name, first)]
                  /\ sent' = [sent EXCEPT ![next] = Candidate(name, first)]
    /\ UNCHANGED <<tools, answer>>

\* restoreClaudeToolAliases, of a name.
Restored(name) ==
    IF name \in Aliases THEN CHOOSE n \in ToolNames : forward[n] = name ELSE name

\* The provider calls one of the tools it was offered.
Call(i) ==
    /\ next > Len(tools) /\ answer.called = None
    /\ answer' = [called |-> sent[i], given |-> Restored(sent[i])]
    /\ UNCHANGED <<tools, next, forward, sent>>

Next == AliasTool \/ \E i \in 1..Len(tools) : Call(i)

Spec == Init /\ [][Next]_vars

-----------------------------------------------------------------------------

(* The client is called back by the name it gave the tool, whichever tool   *)
(* the provider calls, whatever names and hashes collide and whatever name *)
(* of the caller's looks like an alias; no two tools of different names    *)
(* are offered under one name (claude-protocol.js aliasClaudeOAuthTools).  *)
AliasesAreReversible ==
    /\ \A i, j \in 1..Len(tools) : sent[i] = sent[j] => tools[i] = tools[j]
    /\ answer.called # None =>
         \E i \in 1..Len(tools) : sent[i] = answer.called /\ tools[i] = answer.given

-----------------------------------------------------------------------------
\* What the steps keep, of which AliasesAreReversible and TypeOK follow.
NamesAreTyped ==
    /\ tools \in BoundedSeq(ToolNames, MaxTools) /\ next \in 1..(Len(tools) + 1)
    /\ forward \in [ToolNames -> AllNames \cup {None}]
    /\ sent \in [DOMAIN tools -> AllNames]
    /\ answer \in [called : AllNames \cup {None}, given : AllNames \cup {None}]

\* A tool is sent under its name or under the alias of its name.
SentAsNamed ==
    \A i \in DOMAIN tools :
        sent[i] = tools[i] \/ (forward[tools[i]] # None /\ sent[i] = forward[tools[i]])

\* An alias is that of one name and is not the name of a tool.
AliasesAreApart ==
    \A n \in ToolNames : forward[n] # None =>
        /\ forward[n] \notin ToSet(tools)
        /\ \A m \in ToolNames : forward[m] = forward[n] => m = n

\* The provider calls when all tools are named, one that was sent.
CalledAsSent ==
    answer.called # None =>
        /\ next = Len(tools) + 1
        /\ \E i \in DOMAIN tools : sent[i] = answer.called /\ tools[i] = answer.given

NamesInv == NamesAreTyped /\ SentAsNamed /\ AliasesAreApart /\ CalledAsSent
=============================================================================
