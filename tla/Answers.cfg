SPECIFICATION AnswersSpec
CONSTANTS
  Years <- MCYears
  MonthsPerYear = 3
  Cutoff <- MCCutoff
  RangeSets <- MCRangeSets
  Resumes <- MCResumes
  PlanIds <- MCPlanIds
  MaxAssessments = 3
  HeadLines = 3
  Reports <- MCReports
  ReportAnswers <- MCReportAnswers
  JobTexts <- MCJobTexts
  MaxUnits = 5
  MaxNumber = 5
  JobPhrases <- MCJobPhrases
  PlanAnswers <- MCPlanAnswers
  MaxCriteria = 3
  Few = 2
  Many = 2
  ContentBefore <- MCContentBefore
  FactRuns <- MCFactRuns
  Groupings <- MCGroupings
  Units <- MCUnits
  OutputTooLarge <- MCOutputTooLarge
  MaxFacts = 3
  FewFacts = 1
  ManyFacts = 2
  Drafts <- MCDrafts
  EditedLists <- MCEditedLists
  StoredReports <- MCStoredReports
  MaxTags = 2
INVARIANTS
  ResumeRead
  ReportsSound
  PlansSound
  NotAskedTwice
  FactsSound
CHECK_DEADLOCK FALSE
