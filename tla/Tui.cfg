SPECIFICATION Spec
CONSTANTS
  Ports = {1, 2}
  UserRules <- Rules
  Layouts = {"installed", "override"}
  Strays <- Litter
  Names = {"a", "b"}
  Urls = {"u"}
  Priorities = {1}
  Blank = Blank
  MaxSubs = 2
  Default <- FirstRun
  UserFiles <- Written
  PanelEdits <- Panel
  Days = {7}
  MaxEvents = 4
INVARIANTS CleanMeansSaved UserRulesKept UninstallLeavesNothing
PROPERTIES CommentsKept UnknownFilesKept
CHECK_DEADLOCK FALSE
