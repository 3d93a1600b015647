----------------------------- MODULE MCAgentRun -----------------------------
(* Answers for AgentRun: each shape for each agent, and findings that pass, *)
(* warn, fail and break each layer of the validation stack.                 *)
EXTENDS AgentRun

MCDispatched ==
  {PlanAgents("quick_overview"), Agent \ {"hypothesis", "overtime-trend"}, Agent}

MCKeys == {{}, {"gemini"}, {"anthropic", "groq"}}

MCSelections == {"auto", "gemini", "openai", "claude-haiku"}

Plain(s) ==
  [shape |-> s, under |-> "none", findings |-> <<>>, charts |-> "none", storable |-> TRUE]
Listing(F) == [Plain("object") EXCEPT !.under = "findings", !.findings = F]
Misplaced(F) == [Listing(F) EXCEPT !.under = "elsewhere"]
Refused(ans) == [ans EXCEPT !.storable = FALSE]

Good ==
  [kind |-> "finding", headline |-> "headline", detail |-> "text", impact |-> "high",
   confidence |-> [is |-> "number", value |-> 10000], sources |-> "table",
   percents |-> 1, huge |-> 0, amounts |-> 0, broken |-> FALSE, says |-> "up",
   supporting |-> [delta |-> 2, revenue |-> "fine", rate |-> "fine", date |-> "fine",
                   segments |-> <<1, 2>>, aggregate |-> 2]]
Doubtful ==
  [Good EXCEPT !.headline = "missing", !.impact = "severe", !.huge = 1, !.sources = "none",
               !.confidence = [is |-> "numeral", value |-> 850000],
               !.supporting.date = "unreadable", !.supporting.segments = <<-1, -2, 0, 1>>]
Contradicted ==
  [Good EXCEPT !.says = "down", !.detail = "blank", !.headline = "empty", !.percents = 0,
               !.supporting.rate = "outside",
               !.confidence = [is |-> "number", value |-> 1000000]]
Impossible ==
  [Good EXCEPT !.supporting.revenue = "negative", !.impact = "minor", !.headline = "blank",
               !.sources = "empty",
               !.confidence = [is |-> "number", value |-> -1]]
Broken == [Good EXCEPT !.broken = TRUE]
Bare == [kind |-> "bare", broken |-> FALSE]

FindingLists == {<<>>, <<Good>>, <<Doubtful>>, <<Contradicted, Impossible>>, <<Broken>>, <<Good, Bare>>}

MCAnswers ==
  [a \in Agent |->
     CASE a = "question-framing" -> {Plain("text"), Plain("list"), Plain("unclosed")}
       [] a = "data-explorer" -> {Plain("object"), Plain("list")}
       [] a = "overtime-trend" -> {Listing(<<Good>>), Misplaced(<<Impossible>>), Plain("list")}
       [] a = "descriptive-analytics" -> {Listing(F) : F \in FindingLists} \cup {Plain("text"), Plain("odd-text")}
       [] a = "root-cause-investigator" -> {Listing(<<Doubtful>>), Refused(Plain("object"))}
       [] a = "chart-maker" -> {[Plain("object") EXCEPT !.charts = c] : c \in {"none", "specs", "odd"}}
       [] a = "storytelling" -> {Plain("object"), Plain("list")}
       [] OTHER -> {Plain("object"), Plain("unclosed")}]

=============================================================================
