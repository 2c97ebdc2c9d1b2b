\* A request to a model by its name and a prompt, while models, prompts and state.json change.
CONSTANTS
  Sections = {reservations, prompts}
  Bookings = {none, booked}
  Values <- MCValues
  FileFirst = {reservations}
  Torn = Torn
  NoContent = NoContent
  Prompts = prompts
  PromptNames = {q, r}
  Texts = {none, text}
  NoText = none
  Agents = {agent}
  Names = {a}
  Ports = {p}
  NoPort = NoPort
  NoName = NoName
  NoAsk = NoAsk
SPECIFICATION GatewaySpec
SYMMETRY Symmetry
CONSTRAINT FewVersions
INVARIANTS GatewayTypeOK Readable AnsweredSurvives MemoryIsFile ShowsWhatIsSaved
PROPERTIES SectionsApart PromptIsAnswered
