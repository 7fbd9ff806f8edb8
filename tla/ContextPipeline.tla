-------------------------- MODULE ContextPipeline --------------------------
(* The context pipeline of solve-efficiently (context_pipeline.py): what a    *)
(* provider offers is filtered by processors, a selector fills a budget of    *)
(* items and characters, and a receipt with one decision per offered item     *)
(* then collects what was consumed and found useful.  Processors and          *)
(* selectors are plug-ins: besides those shipped, others do as they please.   *)
EXTENDS Integers, Sequences, FiniteSets, Ranking, Absence

CONSTANTS
  ItemId, Character,
  Query,       \* the words asked for, of one character here
  Blank,       \* the characters that are stripped
  Offers,      \* what providers return
  Budgets,
  Processings(_, _),   \* what a processor of others returns for items, and of what was offered
  Answers(_, _),       \* what a selector of others returns for items, and of the shipped one's answer
  MaxProcessors, MaxMarks   \* bounds

VARIABLES
  offered, budget,   \* what was provided and asked for
  processed,   \* what the processors left
  selection,   \* what the selector answered
  receipt,     \* of an accepted selection
  stage,       \* what run waits for, or how it ended
  steps        \* processors run, then marks made

pipelineVars == <<offered, budget, processed, selection, receipt, stage, steps>>
-----------------------------------------------------------------------------
\* ContextItem; whether it expired when the clock was read, and its priority.
ContextItem == [id : ItemId, text : Seq(Character), expired : BOOLEAN, priority : Int]

ContextBudget == [chars : Nat \ {0}, items : Nat \ {0}]

\* ContextDecision; its text stands for the digest of it.
ContextDecision ==
  [id : ItemId, status : {"included", "truncated", "excluded"}, original : Seq(Character),
   selected : Int, consumed : BOOLEAN, usefulness : {"unknown", "useful", "unused"}]

ContextSelection == [items : Seq(ContextItem), decisions : Seq(ContextDecision)]

ASSUME PipelineConstants ==
  /\ Offers \subseteq Seq(ContextItem) /\ Budgets \subseteq ContextBudget
  /\ MaxProcessors \in Nat /\ MaxMarks \in Nat

IdsOf(items) == {items[i].id : i \in DOMAIN items}
UniqueIds(items) == \A i, j \in DOMAIN items : items[i].id = items[j].id => i = j
WithId(items, id) == items[CHOOSE i \in DOMAIN items : items[i].id = id]
ExpiredIds(items) == {items[i].id : i \in {j \in DOMAIN items : items[j].expired}}

\* Those at some places, in their order.
Only(items, places) ==
  LET at == InOrder(places, {pair \in places \X places : pair[1] < pair[2]}) IN
  [r \in 1..Cardinality(places) |-> items[at[r]]]

Cut(text, n) == [k \in 1..n |-> text[k]]

\* The sum of the first n numbers.
Sum(number, n) ==
  LET upto[k \in 0..n] == IF k = 0 THEN 0 ELSE upto[k - 1] + number[k] IN upto[n]

\* Texts are joined by two line feeds.
Separators(n) == IF n = 0 THEN 0 ELSE 2 * (n - 1)
Rendered(items) ==
  Sum([i \in DOMAIN items |-> Len(items[i].text)], Len(items)) + Separators(Len(items))
-----------------------------------------------------------------------------
(* The shipped processor and selector.                                      *)

Strip(text) ==
  LET words == {k \in DOMAIN text : text[k] \notin Blank}
      from == CHOOSE k \in words : \A j \in words : k <= j
      to == CHOOSE k \in words : \A j \in words : j <= k IN
  IF words = {} THEN <<>> ELSE SubSeq(text, from, to)

\* NormalizeWhitespaceProcessor: blank items disappear.
Normalized(items) ==
  Only([i \in DOMAIN items |-> [items[i] EXCEPT !.text = Strip(items[i].text)]],
       {i \in DOMAIN items : Strip(items[i].text) # <<>>})

Matches(item) == Cardinality({k \in DOMAIN item.text : item.text[k] \in Query})

\* Items are served by matches, then priority, then position.
ServedBefore(items, i, j) ==
  \/ Matches(items[i]) > Matches(items[j])
  \/ Matches(items[i]) = Matches(items[j]) /\ items[i].priority > items[j].priority
  \/ Matches(items[i]) = Matches(items[j]) /\ items[i].priority = items[j].priority /\ i < j

Ranks(items) ==
  InOrder(DOMAIN items,
          {pair \in (DOMAIN items) \X (DOMAIN items) : ServedBefore(items, pair[1], pair[2])})

Decision(item, status, chars) ==
  [id |-> item.id, status |-> status, original |-> item.text, selected |-> chars,
   consumed |-> FALSE, usefulness |-> "unknown"]

\* Mutant: the separator is not taken from what is left.
MutAvailable(remaining, chosen) == remaining

\* What is left for the next item: two characters separate it from the last one.
Available(remaining, chosen) ==
  LET separator == IF chosen = <<>> THEN 0 ELSE 2 IN
  IF remaining > separator THEN remaining - separator ELSE 0

Room(state) == Available(state.remaining, state.items)
Full(state) == Len(state.items) >= budget.items \/ Room(state) = 0

\* An item, whole or what fits of it.
Fitting(item, room) ==
  IF Len(item.text) <= room THEN item ELSE [item EXCEPT !.text = Cut(item.text, room)]

\* One item more, if there is room.
Serve(state, item) ==
  LET put == Fitting(item, Room(state)) IN
  IF Full(state) THEN state
  ELSE [items |-> Append(state.items, put), remaining |-> Room(state) - Len(put.text)]

Decided(state, item) ==
  IF Full(state) THEN Decision(item, "excluded", 0)
  ELSE Decision(item, IF Len(item.text) <= Room(state) THEN "included" ELSE "truncated",
                Len(Fitting(item, Room(state)).text))

\* What is chosen and left after each round.
Servings(items) ==
  LET order == Ranks(items)
      served[r \in 0..Len(items)] ==
        IF r = 0 THEN [items |-> <<>>, remaining |-> budget.chars]
        ELSE Serve(served[r - 1], items[order[r]]) IN
  served

\* RankedBudgetSelector.
RankedBudgetSelect(items) ==
  LET served == Servings(items)
      order == Ranks(items)
      before(i) == served[(CHOOSE r \in DOMAIN order : order[r] = i) - 1] IN
  [items |-> served[Len(items)].items,
   decisions |-> [i \in DOMAIN items |-> Decided(before(i), items[i])]]
-----------------------------------------------------------------------------
(* Running the pipeline.                                                    *)

\* Items with one id twice are refused, as they are after each processor.
Provide ==
  /\ stage = "provider"
  /\ offered' \in Offers /\ budget' \in Budgets
  /\ processed' = Only(offered', {i \in DOMAIN offered' : ~offered'[i].expired})
  /\ stage' = IF UniqueIds(offered') THEN "processors" ELSE "refused"
  /\ UNCHANGED <<selection, receipt, steps>>

\* A processor may not duplicate an item nor bring an expired one back.
Process ==
  /\ stage = "processors" /\ steps < MaxProcessors
  /\ processed' \in {Normalized(processed)} \cup Processings(processed, offered)
  /\ processed' \in Seq(ContextItem)
  /\ stage' = IF UniqueIds(processed') /\ ExpiredIds(offered) \cap IdsOf(processed') = {}
              THEN "processors" ELSE "refused"
  /\ steps' = steps + 1
  /\ UNCHANGED <<offered, budget, selection, receipt>>

\* Items no provider offered are refused before the selector is asked.
AskSelector ==
  /\ stage = "processors"
  /\ IF IdsOf(processed) \subseteq IdsOf(offered)
     THEN /\ LET shipped == RankedBudgetSelect(processed) IN
             \/ selection' = shipped
             \/ selection' \in Answers(processed, shipped) /\ selection' \in ContextSelection
          /\ stage' = "selected"
     ELSE stage' = "refused" /\ UNCHANGED selection
  /\ UNCHANGED <<offered, budget, processed, receipt, steps>>

DecisionHolds(decision, items) ==
  LET original == WithId(processed, decision.id)
      text == WithId(items, decision.id).text IN
  /\ decision.original = original.text
  /\ decision.selected \in 0..Len(decision.original)
  /\ ~decision.consumed /\ decision.usefulness = "unknown"
  /\ IF decision.id \notin IdsOf(items)
     THEN decision.status = "excluded" /\ decision.selected = 0
     ELSE /\ decision.selected = Len(text)
          /\ \/ decision.status = "included" /\ text = original.text
             \/ /\ decision.status = "truncated"
                /\ Len(text) < Len(original.text) /\ text = Cut(original.text, Len(text))

\* What _validate_selection and its caller check of a selector's answer.
ValidSelection(s) ==
  /\ UniqueIds(s.items) /\ IdsOf(s.items) \subseteq IdsOf(processed)
  /\ UniqueIds(s.decisions) /\ IdsOf(s.decisions) = IdsOf(processed)
  /\ Len(s.items) <= budget.items
  /\ Rendered(s.items) <= budget.chars
  /\ \A i \in DOMAIN s.decisions : DecisionHolds(s.decisions[i], s.items)

\* One decision per offered item, in the provider's order.
DecisionsOn(s) ==
  [i \in DOMAIN offered |->
     IF offered[i].id \in IdsOf(s.decisions) THEN WithId(s.decisions, offered[i].id)
     ELSE Decision(offered[i], "excluded", 0)]

Accept ==
  /\ stage = "selected"
  /\ IF ValidSelection(selection)
     THEN /\ receipt' = [chars |-> Rendered(selection.items), decisions |-> DecisionsOn(selection)]
          /\ stage' = "accepted"
     ELSE stage' = "rejected" /\ UNCHANGED receipt
  /\ steps' = 0
  /\ UNCHANGED <<offered, budget, processed, selection>>
-----------------------------------------------------------------------------
(* What became of the context.                                              *)

Chosen(decisions) == {i \in DOMAIN decisions : decisions[i].status # "excluded"}

MarkConsumed ==
  /\ stage = "accepted" /\ steps < MaxMarks
  /\ \E chosen \in SUBSET Chosen(receipt.decisions) :
       receipt' = [receipt EXCEPT !.decisions =
         [i \in DOMAIN offered |->
            IF i \in chosen THEN [receipt.decisions[i] EXCEPT !.consumed = TRUE]
            ELSE receipt.decisions[i]]]
  /\ steps' = steps + 1
  /\ UNCHANGED <<offered, budget, processed, selection, stage>>

\* Useful is only what was consumed.
MarkUsefulness ==
  /\ stage = "accepted" /\ steps < MaxMarks
  /\ \E chosen \in SUBSET Chosen(receipt.decisions), usefulness \in {"useful", "unused"} :
       /\ usefulness = "useful" => \A i \in chosen : receipt.decisions[i].consumed
       /\ receipt' = [receipt EXCEPT !.decisions =
            [i \in DOMAIN offered |->
               IF i \in chosen THEN [receipt.decisions[i] EXCEPT !.usefulness = usefulness]
               ELSE receipt.decisions[i]]]
  /\ steps' = steps + 1
  /\ UNCHANGED <<offered, budget, processed, selection, stage>>

\* usage_metrics: characters of some of the items, with the separators between them.
CharsOf(decisions, some) ==
  Sum([i \in DOMAIN decisions |-> IF i \in some THEN decisions[i].selected ELSE 0], Len(decisions))
    + Separators(Cardinality(some))

PipelineInit ==
  /\ offered = None /\ budget = None /\ processed = None
  /\ selection = None /\ receipt = None /\ stage = "provider" /\ steps = 0

PipelineNext == Provide \/ Process \/ AskSelector \/ Accept \/ MarkConsumed \/ MarkUsefulness

PipelineSpec == PipelineInit /\ [][PipelineNext]_pipelineVars
-----------------------------------------------------------------------------
(* Properties.                                                              *)

\* What the shipped selector answers always passes the checks, also at the budget's edge.
RankedSelectionIsValid ==
  stage = "rejected" => selection # RankedBudgetSelect(processed)

\* Nothing is served before the items that rank above it were served whole.
RankIsRespected ==
  stage = "accepted" /\ selection = RankedBudgetSelect(processed) =>
    \A i, j \in DOMAIN processed :
      ServedBefore(processed, i, j) /\ selection.decisions[j].status # "excluded" =>
        selection.decisions[i].status = "included"

\* Whatever the plug-ins did, the context that goes out fits the budget, holds nothing expired
\* and nothing that was not offered, and its receipt decides every offered item once.
ContextIsBounded ==
  stage = "accepted" =>
    /\ Rendered(selection.items) <= budget.chars /\ Len(selection.items) <= budget.items
    /\ \A i \in DOMAIN selection.items :
         LET id == selection.items[i].id IN
         /\ id \in IdsOf(offered) \ ExpiredIds(offered)
         /\ selection.items[i].text
              = Cut(WithId(processed, id).text, WithId(receipt.decisions, id).selected)
    /\ DOMAIN receipt.decisions = DOMAIN offered
    /\ \A i \in DOMAIN offered : receipt.decisions[i].id = offered[i].id
    /\ {receipt.decisions[i].id : i \in Chosen(receipt.decisions)} = IdsOf(selection.items)

\* Useful context was consumed when it was marked, consumed context was selected, and the
\* characters consumed or useful are no more than those that went out.
UsageIsAccounted ==
  stage = "accepted" =>
    LET decisions == receipt.decisions
        consumed == {i \in DOMAIN decisions : decisions[i].consumed}
        useful == {i \in DOMAIN decisions : decisions[i].usefulness = "useful"} IN
    /\ useful \subseteq consumed /\ consumed \subseteq Chosen(decisions)
    /\ CharsOf(decisions, useful) <= CharsOf(decisions, consumed)
    /\ CharsOf(decisions, consumed) <= receipt.chars

ContextIsAccounted ==
  RankedSelectionIsValid /\ RankIsRespected /\ ContextIsBounded /\ UsageIsAccounted
=============================================================================
