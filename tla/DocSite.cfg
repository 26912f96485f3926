CONSTANTS
  Null = Null
  TypeError = TypeError
  Nothing = Null
  TooShort = TooShort
  ReferenceModels <- MCReferenceModels
  RestModels <- MCRestModels
  Pages <- MCPages
  Texts <- MCTexts
  NavBar <- MCNavBar
  FilterTexts = {"x", "y", "z"}
  Docs <- MCDocs
  WordsOf <- MCWordsOf
  StopWords = {"the"}
  Queries <- MCQueries
  MaxKeys = 4
SPECIFICATION FairSpec
INVARIANT PageIsConsistent
INVARIANT BookmarksLand
INVARIANT ModelsAreShown
INVARIANT SchemasAreShown
INVARIANT LinksLeadHome
INVARIANT SidebarIsOrderFree
INVARIANT FilterKeepsMatches
INVARIANT ResultsSettle
PROPERTY AnswersAreOrderFree
PROPERTY SearchAnswers
CHECK_DEADLOCK FALSE
